---- MODULE Spec2Model ----
(***************************************************************************)
(* Section-gated test-attempt engine of the career-assessment backend      *)
(* (backend-node/routes/test.js and the admin question routes).            *)
(*                                                                         *)
(* The persistent store is the state: the test_attempts, section_progresses,*)
(* test_attempt_questions, answers and questions tables.  Every route       *)
(* handler is an action.  The handlers of POST /test/start and              *)
(* GET /test/sections/:id/questions are also modelled request by request,   *)
(* one step per group of awaited store calls, so that two requests of the   *)
(* same student can interleave as they do on the event loop.                *)
(***************************************************************************)
EXTENDS Integers, Sequences, FiniteSets, TLC

(* ------------------------------------------------------------------------ *)
(* Program constants                                                         *)
(* ------------------------------------------------------------------------ *)
QUESTIONS_PER_SECTION == 7
TOTAL_SECTIONS == 5
SECTION_TIME_LIMIT == 420

(* ------------------------------------------------------------------------ *)
(* Bounds of the model                                                       *)
(* ------------------------------------------------------------------------ *)
\* attempts rows that may ever be created
MaxAttempts == 2
\* questions of section 1 beyond the seven every section has
ExtraQuestions == 1
\* admin operations on the question bank in one behaviour
MaxAdminOps == 1
\* requests of the step-by-step handlers that may be in flight together
MaxRequests == 2
\* clock ticks in one behaviour, each of SECTION_TIME_LIMIT seconds
MaxTicks == 1
\* malformed answer sheets a client submits in one behaviour
MaxBadSheets == 1
\* the last section the interleaved submit requests are sent for
MaxRacedSection == 3
\* the clock of the timed specification stops at MaxClockTicks time limits
MaxClockTicks == 2
\* the last section the requests of the timed specification are sent for
MaxTimedSection == 2

Students == {1}
Attempts == 1..MaxAttempts
Sections == 1..TOTAL_SECTIONS
Requests == 1..MaxRequests
\* option letters a submitted answer sheet is filled with
SheetLetters == {"C"}

NoTime == 0 - 1
NoSection == 0
NoAttempt == 0

(* ------------------------------------------------------------------------ *)
(* The question bank: section 1 holds 7 + ExtraQuestions questions, the      *)
(* other sections 7 each; ids are contiguous by section.                     *)
(* ------------------------------------------------------------------------ *)
PoolSize(s) == IF s = 1 THEN QUESTIONS_PER_SECTION + ExtraQuestions
                        ELSE QUESTIONS_PER_SECTION

NumQuestions == TOTAL_SECTIONS * QUESTIONS_PER_SECTION + ExtraQuestions

Questions == 1..NumQuestions

SectionOf(q) == IF q <= PoolSize(1) THEN 1
                ELSE ((q - ExtraQuestions - 1) \div QUESTIONS_PER_SECTION) + 1

\* the questions the admin operations of the model are applied to: the first
\* and the last question of section 1 and the first question of section 2
AdminTargets == {1, PoolSize(1), PoolSize(1) + 1}

VARIABLES
    attempts,      \* test_attempts: sequence of rows, id = index
    progress,      \* section_progresses: [attempt][section] -> sequence of rows
    assigned,      \* test_attempt_questions: [attempt] -> set of question ids
    answers,       \* answers: [attempt][question] -> sequence of answer_text
    qstate,        \* questions: [question] -> [status, is_active]
    now,           \* the clock, in seconds
    adminOps,      \* admin operations performed so far
    badSheets,     \* malformed answer sheets submitted so far
    reqs,          \* requests in flight of the step-by-step handlers
    scores,        \* scores: [attempt][dimension] -> sequence of score_value rows
    interp,        \* interpreted_results: [attempt] -> a row exists
    observed,      \* the handlers whose responses the specification records
    resp           \* the last response of an observed handler

vars == <<attempts, progress, assigned, answers, qstate, now, adminOps, badSheets,
          reqs, scores, interp, observed, resp>>

store == <<attempts, progress, assigned, answers, qstate>>

\* the rows written by scoring and by interpretation
results == <<scores, interp>>

(* ------------------------------------------------------------------------ *)
(* Helpers                                                                   *)
(* ------------------------------------------------------------------------ *)
MinOf(S) == CHOOSE x \in S : \A y \in S : x <= y

MaxOf(S) == CHOOSE x \in S : \A y \in S : x >= y

RECURSIVE SortedSeq(_)
\* ORDER BY id ASC
SortedSeq(S) == IF S = {} THEN <<>>
                ELSE LET m == MinOf(S) IN <<m>> \o SortedSeq(S \ {m})

SubsetsOfSize(S, k) == {T \in SUBSET S : Cardinality(T) = k}

AttemptIds == DOMAIN attempts

\* Score.dimension: section_<order_index> is written as the index, 'overall'
\* as Overall
Overall == 0

Dimensions == {Overall} \cup Sections

\* Question.status = 'approved' AND is_active = true
Eligible(q) == qstate[q].status = "approved" /\ qstate[q].is_active

\* EligibleIn without the status and is_active filter
AnyStatusIn(s) == {q \in Questions : SectionOf(q) = s}

EligibleIn(s) == {q \in Questions : SectionOf(q) = s /\ Eligible(q)}

\* TestAttempt.findOne({ where: { id, student_id } })
OwnedAttempt(u, a) == a \in AttemptIds /\ attempts[a].student_id = u

AttemptsOf(u, st) == {a \in AttemptIds : attempts[a].student_id = u
                                          /\ attempts[a].status = st}

\* SectionProgress.findOne({ where: { test_attempt_id, section_id } })
HasProgress(a, s) == Len(progress[a][s]) > 0

ProgressRow(a, s) == progress[a][s][1]

ProgressStatus(a, s) == IF HasProgress(a, s) THEN ProgressRow(a, s).status
                        ELSE "NONE"

SectionCompleted(a, s) == \E i \in DOMAIN progress[a][s] :
                              progress[a][s][i].status = "COMPLETED"

NoRequest == [op |-> "none", pc |-> "idle", student |-> 0, attempt |-> NoAttempt,
              section |-> NoSection, sel |-> {}, sheet |-> <<>>, existing |-> {},
              row |-> <<>>, computed |-> <<>>]

NoResp == [op |-> "none", student |-> 0, attempt |-> NoAttempt, section |-> NoSection,
           code |-> 0, error |-> "", ids |-> <<>>, sheet |-> <<>>, view |-> <<>>,
           atomic |-> TRUE]

(* ------------------------------------------------------------------------ *)
(* Initial state: an empty store but for the seeded sections and questions.  *)
(* A specification chooses which questions still wait for approval           *)
(* (AI-generated questions are stored pending and inactive).                 *)
(* ------------------------------------------------------------------------ *)
ApprovedQ == [status |-> "approved", is_active |-> TRUE]

PendingQ == [status |-> "pending", is_active |-> FALSE]

\* the bank in which the questions of P wait for approval
Bank(P) == [q \in Questions |-> IF q \in P THEN PendingQ ELSE ApprovedQ]

\* the questions of section 1 beyond the first seven
SpareQuestions == {q \in Questions : SectionOf(q) = 1 /\ q > QUESTIONS_PER_SECTION}

InitStore(bank, obs) ==
    /\ attempts = <<>>
    /\ progress = [a \in Attempts |-> [s \in Sections |-> <<>>]]
    /\ assigned = [a \in Attempts |-> {}]
    /\ answers = [a \in Attempts |-> [q \in Questions |-> <<>>]]
    /\ qstate = bank
    /\ now = 0
    /\ adminOps = 0
    /\ badSheets = 0
    /\ reqs = [r \in Requests |-> NoRequest]
    /\ scores = [a \in Attempts |-> [d \in Dimensions |-> <<>>]]
    /\ interp = [a \in Attempts |-> FALSE]
    /\ observed = obs
    /\ resp = NoResp

(* ------------------------------------------------------------------------ *)
(* Responses                                                                 *)
(* ------------------------------------------------------------------------ *)
Resp(op, u, a, s, code, error) ==
    [NoResp EXCEPT !.op = op, !.student = u, !.attempt = a, !.section = s,
                   !.code = code, !.error = error]

\* the response as the specification records it
Seen(r) == IF r.op \in observed THEN r ELSE NoResp

(* ------------------------------------------------------------------------ *)
(* POST /test/start                                                          *)
(* ------------------------------------------------------------------------ *)
\* the row TestAttempt.create stores
NewAttempt(u) ==
    [student_id |-> u, status |-> "IN_PROGRESS", current_section_id |-> NoSection,
     current_question_index |-> 0, remaining_time_seconds |-> SECTION_TIME_LIMIT,
     completed_at |-> NoTime]

\* "Check if user has already completed a test (ONE ATTEMPT ONLY)"
HasCompletedAttempt(u) == AttemptsOf(u, "COMPLETED") # {}

\* "Check if user has an in-progress test": the rows findOne may return
ExistingAttempts(u) == AttemptsOf(u, "IN_PROGRESS")

\* "Validate that at least one section has minimum 7 questions"
HasEnoughQuestions ==
    \E s \in Sections : Cardinality(EligibleIn(s)) >= QUESTIONS_PER_SECTION

StartResp(u, a, code, error, atomic) ==
    [Resp("start", u, a, NoSection, code, error) EXCEPT !.atomic = atomic]

\* The whole handler, run with no other request in between.
StartTest(u) ==
    /\ UNCHANGED <<progress, assigned, answers, qstate, now, adminOps, badSheets, reqs, observed, results>>
    /\ IF HasCompletedAttempt(u)
       THEN /\ attempts' = attempts
            /\ resp' = Seen(StartResp(u, NoAttempt, 400, "ALREADY_COMPLETED", TRUE))
       ELSE IF ExistingAttempts(u) # {}
       THEN /\ attempts' = attempts
            /\ \E a \in ExistingAttempts(u) :
                   resp' = Seen(StartResp(u, a, 200, "", TRUE))
       ELSE IF ~HasEnoughQuestions
       THEN /\ attempts' = attempts
            /\ resp' = Seen(StartResp(u, NoAttempt, 400, "INSUFFICIENT_QUESTIONS", TRUE))
       ELSE /\ Len(attempts) < MaxAttempts
            /\ attempts' = Append(attempts, NewAttempt(u))
            /\ resp' = Seen(StartResp(u, Len(attempts) + 1, 200, "", TRUE))

\* The same handler request by request.  First store call: the COMPLETED check.
StartCheckCompleted(r, u) ==
    /\ reqs[r].pc = "idle"
    /\ UNCHANGED <<store, now, adminOps, badSheets, observed, results>>
    /\ IF HasCompletedAttempt(u)
       THEN /\ reqs' = reqs
            /\ resp' = Seen(StartResp(u, NoAttempt, 400, "ALREADY_COMPLETED", FALSE))
       ELSE /\ reqs' = [reqs EXCEPT ![r] = [NoRequest EXCEPT !.op = "start",
                           !.pc = "checkExisting", !.student = u]]
            /\ resp' = NoResp

\* Second: the IN_PROGRESS check, then the count of questions per section.
StartCheckExisting(r) ==
    /\ reqs[r].op = "start" /\ reqs[r].pc = "checkExisting"
    /\ UNCHANGED <<store, now, adminOps, badSheets, observed, results>>
    /\ LET u == reqs[r].student IN
       IF ExistingAttempts(u) # {}
       THEN /\ reqs' = [reqs EXCEPT ![r] = NoRequest]
            /\ \E a \in ExistingAttempts(u) :
                   resp' = Seen(StartResp(u, a, 200, "", FALSE))
       ELSE IF ~HasEnoughQuestions
       THEN /\ reqs' = [reqs EXCEPT ![r] = NoRequest]
            /\ resp' = Seen(StartResp(u, NoAttempt, 400, "INSUFFICIENT_QUESTIONS", FALSE))
       ELSE /\ reqs' = [reqs EXCEPT ![r].pc = "create"]
            /\ resp' = NoResp

\* Third: TestAttempt.create and the response.
StartCreate(r) ==
    /\ reqs[r].op = "start" /\ reqs[r].pc = "create"
    /\ Len(attempts) < MaxAttempts
    /\ attempts' = Append(attempts, NewAttempt(reqs[r].student))
    /\ reqs' = [reqs EXCEPT ![r] = NoRequest]
    /\ resp' = Seen(StartResp(reqs[r].student, Len(attempts) + 1, 200, "", FALSE))
    /\ UNCHANGED <<progress, assigned, answers, qstate, now, adminOps, badSheets, observed, results>>

(* ------------------------------------------------------------------------ *)
(* GET /test/sections/:section_id/questions                                  *)
(* ------------------------------------------------------------------------ *)
\* SectionLocked without the loop over the previous sections
NeverLocked(a, s) == FALSE

\* "Check if section is unlocked (previous sections must be completed)"
SectionLocked(a, s) == \E p \in Sections : p < s /\ ~SectionCompleted(a, p)

\* The checks before the assignment is read: the error, or "" when they pass.
QuestionsPrecheck(u, a, s) ==
    IF ~OwnedAttempt(u, a) THEN [code |-> 404, error |-> "ATTEMPT_NOT_FOUND"]
    ELSE IF attempts[a].status # "IN_PROGRESS"
    THEN [code |-> 400, error |-> "ATTEMPT_NOT_IN_PROGRESS"]
    ELSE IF s > 1 /\ SectionLocked(a, s)
    THEN [code |-> 403, error |-> "SECTION_LOCKED"]
    ELSE [code |-> 200, error |-> ""]

\* ExistingAssigned finding no junction row
NoExistingAssigned(a, s) == {}

\* "Check if questions already exist for this attempt + section": the junction
\* rows joined with the questions of the section that are active and approved
ExistingAssigned(a, s) ==
    {q \in assigned[a] : SectionOf(q) = s /\ Eligible(q)}

\* the junction rows of the attempt whose question is in the section
AssignedIn(a, s) == {q \in assigned[a] : SectionOf(q) = s}

\* the attempts findOne(... order completed_at DESC) may return
PreviousAttempts(u) ==
    LET done == AttemptsOf(u, "COMPLETED") IN
    {p \in done : \A o \in done : attempts[o].completed_at <= attempts[p].completed_at}

\* the question ids of the previous attempt in this section, for every row the
\* query for the previous attempt may return ({} when there is none)
PreviousQuestionIdSets(u, s) ==
    IF PreviousAttempts(u) = {} THEN {{}}
    ELSE {AssignedIn(p, s) : p \in PreviousAttempts(u)}

\* ORDER BY RANDOM() LIMIT 7 over a pool
RandomSevenOf(pool) ==
    IF Cardinality(pool) <= QUESTIONS_PER_SECTION THEN {pool}
    ELSE SubsetsOfSize(pool, QUESTIONS_PER_SECTION)

\* the sets of question ids the random selection may produce
Selections(u, s) ==
    LET elig == EligibleIn(s) IN
    UNION {LET exclude == prev # {} /\ Cardinality(elig) > QUESTIONS_PER_SECTION
               candidates == IF exclude THEN elig \ prev ELSE elig
           IN  IF Cardinality(candidates) < QUESTIONS_PER_SECTION /\ prev # {}
               THEN RandomSevenOf(elig)
               ELSE RandomSevenOf(candidates)
           : prev \in PreviousQuestionIdSets(u, s)}

\* "Get questions for this section from the junction table", ORDER BY id ASC
FinalRead(sel, s) ==
    SortedSeq({q \in sel : SectionOf(q) = s /\ Eligible(q)})

QuestionsResp(u, a, s, code, error, ids, atomic) ==
    [Resp("questions", u, a, s, code, error) EXCEPT !.ids = ids, !.atomic = atomic]

\* What one call of the whole handler may do in the current state: the
\* response and the junction rows after it.
QuestionsOutcomes(u, a, s) ==
    LET pre == QuestionsPrecheck(u, a, s) IN
    IF pre.code # 200
    THEN {[code |-> pre.code, error |-> pre.error, ids |-> <<>>, rows |-> {}]}
    ELSE IF ExistingAssigned(a, s) # {}
    THEN {[code |-> 200, error |-> "", ids |-> FinalRead(ExistingAssigned(a, s), s),
           rows |-> {}]}
    ELSE IF Cardinality(EligibleIn(s)) < QUESTIONS_PER_SECTION
    THEN {[code |-> 400, error |-> "INSUFFICIENT_QUESTIONS", ids |-> <<>>, rows |-> {}]}
    ELSE {[code |-> 200, error |-> "", ids |-> FinalRead(sel, s), rows |-> sel] :
              sel \in Selections(u, s)}

\* The whole handler, run with no other request in between.
GetSectionQuestions(u, a, s) ==
    /\ \E o \in QuestionsOutcomes(u, a, s) :
          /\ assigned' = IF o.rows = {} THEN assigned
                         ELSE [assigned EXCEPT ![a] = @ \cup o.rows]
          /\ resp' = Seen(QuestionsResp(u, a, s, o.code, o.error, o.ids, TRUE))
    /\ UNCHANGED <<attempts, progress, answers, qstate, now, adminOps, badSheets, reqs, observed, results>>

\* The same handler request by request.  First: the attempt, the section, the
\* lock check and the read of the existing assignment.
QuestionsVerify(r, u, a, s) ==
    /\ reqs[r].pc = "idle"
    /\ UNCHANGED <<store, now, adminOps, badSheets, observed, results>>
    /\ LET pre == QuestionsPrecheck(u, a, s) IN
       IF pre.code # 200
       THEN /\ reqs' = reqs
            /\ resp' = Seen(QuestionsResp(u, a, s, pre.code, pre.error, <<>>, FALSE))
       ELSE /\ reqs' = [reqs EXCEPT ![r] = [NoRequest EXCEPT !.op = "questions",
                           !.pc = IF ExistingAssigned(a, s) # {} THEN "read" ELSE "select",
                           !.student = u, !.attempt = a, !.section = s,
                           !.sel = ExistingAssigned(a, s)]]
            /\ resp' = NoResp

\* Second: the count of eligible questions and the random selection.
QuestionsSelect(r) ==
    /\ reqs[r].op = "questions" /\ reqs[r].pc = "select"
    /\ UNCHANGED <<store, now, adminOps, badSheets, observed, results>>
    /\ LET u == reqs[r].student
           a == reqs[r].attempt
           s == reqs[r].section
       IN  IF Cardinality(EligibleIn(s)) < QUESTIONS_PER_SECTION
           THEN /\ reqs' = [reqs EXCEPT ![r] = NoRequest]
                /\ resp' = Seen(QuestionsResp(u, a, s, 400, "INSUFFICIENT_QUESTIONS", <<>>, FALSE))
           ELSE /\ \E sel \in Selections(u, s) :
                       reqs' = [reqs EXCEPT ![r].pc = "insert", ![r].sel = sel]
                /\ resp' = NoResp

\* Third: bulkCreate(..., { ignoreDuplicates: true }) on the unique
\* (test_attempt_id, question_id) index.
QuestionsInsert(r) ==
    /\ reqs[r].op = "questions" /\ reqs[r].pc = "insert"
    /\ assigned' = [assigned EXCEPT ![reqs[r].attempt] = @ \cup reqs[r].sel]
    /\ reqs' = [reqs EXCEPT ![r].pc = "read"]
    /\ resp' = NoResp
    /\ UNCHANGED <<attempts, progress, answers, qstate, now, adminOps, badSheets, observed, results>>

\* Fourth: the final read and the response.
QuestionsRead(r) ==
    /\ reqs[r].op = "questions" /\ reqs[r].pc = "read"
    /\ reqs' = [reqs EXCEPT ![r] = NoRequest]
    /\ resp' = Seen(QuestionsResp(reqs[r].student, reqs[r].attempt, reqs[r].section, 200, "",
                             FinalRead(reqs[r].sel, reqs[r].section), FALSE))
    /\ UNCHANGED <<store, now, adminOps, badSheets, observed, results>>

(* ------------------------------------------------------------------------ *)
(* POST /test/sections/:section_id/start                                     *)
(* ------------------------------------------------------------------------ *)
NewProgress(status, start) ==
    [status |-> status, section_start_time |-> start, total_time_spent |-> 0,
     paused_at |-> NoTime]

\* a start that only looks at current_section_id
StartBlockedByCurrent(a, s) ==
    attempts[a].current_section_id # NoSection /\ s > attempts[a].current_section_id

\* "Section start validation based on current_section_id"
StartBlocked(a, s) ==
    IF attempts[a].current_section_id # NoSection
    THEN s > attempts[a].current_section_id
    ELSE s > 1 /\ \E p \in Sections : p < s /\ ProgressStatus(a, p) # "COMPLETED"

\* the row an existing progress row becomes on start
StartedRow(row) ==
    IF row.status = "NOT_STARTED"
    THEN [row EXCEPT !.status = "IN_PROGRESS", !.section_start_time = now]
    ELSE IF row.paused_at # NoTime
    THEN [row EXCEPT !.total_time_spent = @ + (now - row.paused_at),
                     !.paused_at = NoTime,
                     !.status = "IN_PROGRESS",
                     !.section_start_time = IF @ = NoTime THEN now ELSE @]
    ELSE row

StartSection(u, a, s) ==
    /\ UNCHANGED <<assigned, answers, qstate, now, adminOps, badSheets, reqs, observed, results>>
    /\ IF ~OwnedAttempt(u, a)
       THEN /\ UNCHANGED <<attempts, progress>>
            /\ resp' = Seen(Resp("startSection", u, a, s, 404, "ATTEMPT_NOT_FOUND"))
       ELSE IF StartBlocked(a, s)
       THEN /\ UNCHANGED <<attempts, progress>>
            /\ resp' = Seen(Resp("startSection", u, a, s, 403, "SECTION_LOCKED"))
       ELSE IF ~HasProgress(a, s)
       THEN /\ progress' = [progress EXCEPT ![a][s] = <<NewProgress("IN_PROGRESS", now)>>]
            /\ attempts' = [attempts EXCEPT ![a].current_section_id = s,
                                            ![a].current_question_index = 0,
                                            ![a].remaining_time_seconds = SECTION_TIME_LIMIT]
            /\ resp' = Seen(Resp("startSection", u, a, s, 200, ""))
       ELSE IF ProgressRow(a, s).status = "COMPLETED"
       THEN /\ UNCHANGED <<attempts, progress>>
            /\ resp' = Seen(Resp("startSection", u, a, s, 400, "SECTION_ALREADY_COMPLETED"))
       ELSE /\ progress' = [progress EXCEPT ![a][s][1] = StartedRow(@)]
            /\ attempts' = attempts
            /\ resp' = Seen(Resp("startSection", u, a, s, 200, ""))

\* The same handler request by request.  First: the checks and the read of
\* the progress row.  A request that found no row goes on to create one;
\* every other request ends here as the whole handler does.
StartSectionRead(r, u, a, s) ==
    /\ reqs[r].pc = "idle"
    /\ IF OwnedAttempt(u, a) /\ ~StartBlocked(a, s) /\ ~HasProgress(a, s)
       THEN /\ reqs' = [reqs EXCEPT ![r] = [NoRequest EXCEPT !.op = "startSection",
                           !.pc = "create", !.student = u, !.attempt = a, !.section = s]]
            /\ resp' = NoResp
            /\ UNCHANGED <<store, now, adminOps, badSheets, observed, results>>
       ELSE StartSection(u, a, s)

\* Second: SectionProgress.create, then the attempt is pointed at the section.
StartSectionCreate(r) ==
    /\ reqs[r].op = "startSection" /\ reqs[r].pc = "create"
    /\ reqs' = [reqs EXCEPT ![r] = NoRequest]
    /\ progress' = [progress EXCEPT ![reqs[r].attempt][reqs[r].section] =
                        Append(@, NewProgress("IN_PROGRESS", now))]
    /\ attempts' = [attempts EXCEPT ![reqs[r].attempt].current_section_id = reqs[r].section,
                                    ![reqs[r].attempt].current_question_index = 0,
                                    ![reqs[r].attempt].remaining_time_seconds =
                                        SECTION_TIME_LIMIT]
    /\ resp' = Seen(Resp("startSection", reqs[r].student, reqs[r].attempt,
                         reqs[r].section, 200, ""))
    /\ UNCHANGED <<assigned, answers, qstate, now, adminOps, badSheets, observed, results>>

(* ------------------------------------------------------------------------ *)
(* GET /test/sections/:section_id/timer                                      *)
(* ------------------------------------------------------------------------ *)
Running(row) == row.section_start_time # NoTime /\ row.paused_at = NoTime

\* a timer read that lets a section run until the limit is passed, not reached
TimerRowStrict(row) ==
    IF Running(row)
       /\ row.total_time_spent + (now - row.section_start_time) > SECTION_TIME_LIMIT
    THEN [row EXCEPT !.total_time_spent = SECTION_TIME_LIMIT,
                     !.section_start_time = NoTime,
                     !.status = "COMPLETED",
                     !.paused_at = NoTime]
    ELSE row

\* "Enforce time limit - auto-complete if exceeded"
TimerRow(row) ==
    IF Running(row)
       /\ row.total_time_spent + (now - row.section_start_time) >= SECTION_TIME_LIMIT
    THEN [row EXCEPT !.total_time_spent = SECTION_TIME_LIMIT,
                     !.section_start_time = NoTime,
                     !.status = "COMPLETED",
                     !.paused_at = NoTime]
    ELSE row

GetSectionTimer(u, a, s) ==
    /\ UNCHANGED <<attempts, assigned, answers, qstate, now, adminOps, badSheets, reqs, observed, results>>
    /\ progress' = IF HasProgress(a, s)
                   THEN [progress EXCEPT ![a][s][1] = TimerRow(@)]
                   ELSE progress
    /\ resp' = Seen(Resp("timer", u, a, s, 200, ""))

\* time passes
Tick ==
    /\ now + SECTION_TIME_LIMIT <= MaxTicks * SECTION_TIME_LIMIT
    /\ now' = now + SECTION_TIME_LIMIT
    /\ resp' = NoResp
    /\ UNCHANGED <<store, adminOps, badSheets, reqs, observed, results>>

\* time passes, by half a time limit or a whole one
Durations == {SECTION_TIME_LIMIT \div 2, SECTION_TIME_LIMIT}

Wait(d) ==
    /\ now + d <= MaxClockTicks * SECTION_TIME_LIMIT
    /\ now' = now + d
    /\ resp' = NoResp
    /\ UNCHANGED <<store, adminOps, badSheets, reqs, observed, results>>

(* ------------------------------------------------------------------------ *)
(* POST /test/sections/:section_id/pause                                     *)
(* ------------------------------------------------------------------------ *)
\* "Calculate remaining time and store it"
PausedSpent(row) ==
    IF Running(row) THEN row.total_time_spent + (now - row.section_start_time)
    ELSE row.total_time_spent

PausedRemaining(row) ==
    IF Running(row) \/ row.total_time_spent > 0
    THEN MaxOf({0, SECTION_TIME_LIMIT - PausedSpent(row)})
    ELSE SECTION_TIME_LIMIT

PausedRow(row) ==
    [row EXCEPT !.total_time_spent = PausedSpent(row),
                !.paused_at = now,
                !.section_start_time = NoTime]

PauseSection(u, a, s) ==
    /\ UNCHANGED <<assigned, answers, qstate, now, adminOps, badSheets, reqs, observed, results>>
    /\ IF ~HasProgress(a, s)
       THEN /\ UNCHANGED <<attempts, progress>>
            /\ resp' = Seen(Resp("pause", u, a, s, 404, "PROGRESS_NOT_FOUND"))
       ELSE IF ProgressRow(a, s).status # "IN_PROGRESS" \/ ProgressRow(a, s).paused_at # NoTime
       THEN /\ UNCHANGED <<attempts, progress>>
            /\ resp' = Seen(Resp("pause", u, a, s, 400, "NOT_RUNNING"))
       ELSE /\ attempts' = [attempts EXCEPT ![a].remaining_time_seconds =
                                PausedRemaining(ProgressRow(a, s))]
            /\ progress' = [progress EXCEPT ![a][s][1] = PausedRow(@)]
            /\ resp' = Seen(Resp("pause", u, a, s, 200, ""))

(* ------------------------------------------------------------------------ *)
(* POST /test/sections/:section_id/resume                                    *)
(* ------------------------------------------------------------------------ *)
\* testAttempt.remaining_time_seconds || (SECTION_TIME_LIMIT - total_time_spent)
ResumeRemaining(a, row) ==
    IF attempts[a].remaining_time_seconds # 0 THEN attempts[a].remaining_time_seconds
    ELSE SECTION_TIME_LIMIT - row.total_time_spent

ResumedRow(a, row) ==
    [row EXCEPT !.total_time_spent = MaxOf({0, SECTION_TIME_LIMIT - ResumeRemaining(a, row)}),
                !.section_start_time = now,
                !.paused_at = NoTime,
                !.status = "IN_PROGRESS"]

\* a resume that does not look at paused_at
ResumeSectionUnchecked(u, a, s) ==
    /\ UNCHANGED <<attempts, assigned, answers, qstate, now, adminOps, badSheets, reqs,
                   observed, results>>
    /\ IF ~HasProgress(a, s)
       THEN /\ progress' = progress
            /\ resp' = Seen(Resp("resume", u, a, s, 400, "NOT_PAUSED"))
       ELSE /\ progress' = [progress EXCEPT ![a][s][1] = ResumedRow(a, @)]
            /\ resp' = Seen(Resp("resume", u, a, s, 200, ""))

ResumeSection(u, a, s) ==
    /\ UNCHANGED <<attempts, assigned, answers, qstate, now, adminOps, badSheets, reqs,
                   observed, results>>
    /\ IF ~HasProgress(a, s) \/ ProgressRow(a, s).paused_at = NoTime
       THEN /\ progress' = progress
            /\ resp' = Seen(Resp("resume", u, a, s, 400, "NOT_PAUSED"))
       ELSE /\ progress' = [progress EXCEPT ![a][s][1] = ResumedRow(a, @)]
            /\ resp' = Seen(Resp("resume", u, a, s, 200, ""))

(* ------------------------------------------------------------------------ *)
(* POST /test/sections/:section_id/submit                                    *)
(* ------------------------------------------------------------------------ *)
SheetIds(sheet) == {sheet[i].question_id : i \in DOMAIN sheet}

RECURSIVE SaveAllAnswers(_, _, _, _, _)
\* a loop that stores every submitted answer over what is stored
SaveAllAnswers(ans, sheet, i, sectionQuestions, existingQuestionIds) ==
    IF i > Len(sheet) THEN [ok |-> TRUE, ans |-> ans]
    ELSE IF sheet[i].question_id \notin sectionQuestions THEN [ok |-> FALSE, ans |-> ans]
    ELSE SaveAllAnswers(
             [ans EXCEPT ![sheet[i].question_id] = <<sheet[i].selected_option>>],
             sheet, i + 1, sectionQuestions, existingQuestionIds)

RECURSIVE SaveNewAnswers(_, _, _, _, _)
\* The loop over the submitted answers: an answer for a question outside the
\* section stops it (the answers created before it stay); an answer is created
\* only for a question that had none when the handler read the stored answers.
SaveNewAnswers(ans, sheet, i, sectionQuestions, existingQuestionIds) ==
    IF i > Len(sheet) THEN [ok |-> TRUE, ans |-> ans]
    ELSE IF sheet[i].question_id \notin sectionQuestions THEN [ok |-> FALSE, ans |-> ans]
    ELSE SaveNewAnswers(
             IF sheet[i].question_id \in existingQuestionIds THEN ans
             ELSE [ans EXCEPT ![sheet[i].question_id] = Append(@, sheet[i].selected_option)],
             sheet, i + 1, sectionQuestions, existingQuestionIds)

\* allSections.find(s => s.order_index === section.order_index + 1)
NextSection(s) == IF s + 1 \in Sections THEN s + 1 ELSE NoSection

\* "Update test attempt with next section"
AdvancedAttempt(row, s) ==
    IF NextSection(s) # NoSection
    THEN [row EXCEPT !.current_section_id = NextSection(s),
                     !.current_question_index = 0,
                     !.remaining_time_seconds = SECTION_TIME_LIMIT]
    ELSE [row EXCEPT !.status = "COMPLETED",
                     !.completed_at = now,
                     !.current_section_id = NoSection]

\* RepointedAttempt pointing at the submitted section itself
PointedBackAttempt(row, s) == [row EXCEPT !.current_section_id = s]

\* the already-COMPLETED branch only moves the pointer when a next section exists
RepointedAttempt(row, s) ==
    IF NextSection(s) # NoSection
    THEN [row EXCEPT !.current_section_id = NextSection(s),
                     !.current_question_index = 0,
                     !.remaining_time_seconds = SECTION_TIME_LIMIT]
    ELSE row

\* "Finalize timer" and "Cap time spent at limit"
FinalizedRow(row) ==
    LET spent == IF Running(row)
                 THEN row.total_time_spent + (now - row.section_start_time)
                 ELSE row.total_time_spent
    IN  [row EXCEPT !.total_time_spent = IF spent < SECTION_TIME_LIMIT THEN spent
                                         ELSE SECTION_TIME_LIMIT,
                    !.section_start_time = IF Running(row) THEN NoTime ELSE @,
                    !.status = "COMPLETED",
                    !.paused_at = NoTime]

\* the all-answers-exist branch marks the row COMPLETED and clears paused_at
MarkedRow(row) ==
    IF row.status # "COMPLETED"
    THEN [row EXCEPT !.status = "COMPLETED", !.paused_at = NoTime]
    ELSE row

SubmitResult(code, error, att, prog, ans) ==
    [code |-> code, error |-> error, attempts |-> att, progress |-> prog, answers |-> ans]

\* What the whole handler does in the current state.
SubmitOutcome(u, a, s, sheet) ==
    IF ~OwnedAttempt(u, a)
    THEN SubmitResult(404, "ATTEMPT_NOT_FOUND", attempts, progress, answers)
    ELSE IF ExistingAssigned(a, s) = {}
    THEN SubmitResult(400, "NO_QUESTIONS_ASSIGNED", attempts, progress, answers)
    ELSE IF Len(sheet) # Cardinality(ExistingAssigned(a, s))
    THEN SubmitResult(400, "ANSWER_COUNT_MISMATCH", attempts, progress, answers)
    ELSE IF HasProgress(a, s) /\ ProgressRow(a, s).status = "COMPLETED"
    THEN SubmitResult(200, "",
                      [attempts EXCEPT ![a] = RepointedAttempt(@, s)], progress, answers)
    ELSE LET existingQuestionIds == {q \in SheetIds(sheet) : answers[a][q] # <<>>}
             completedProgress ==
                 IF ~HasProgress(a, s)
                 THEN [progress EXCEPT ![a][s] = <<NewProgress("COMPLETED", NoTime)>>]
                 ELSE [progress EXCEPT ![a][s][1] = MarkedRow(@)]
             finalizedProgress ==
                 IF ~HasProgress(a, s)
                 THEN [progress EXCEPT ![a][s] = <<NewProgress("COMPLETED", NoTime)>>]
                 ELSE [progress EXCEPT ![a][s][1] = FinalizedRow(@)]
             saved == SaveNewAnswers(answers[a], sheet, 1, ExistingAssigned(a, s),
                                     existingQuestionIds)
         IN  IF SheetIds(sheet) \subseteq existingQuestionIds
             THEN SubmitResult(200, "", [attempts EXCEPT ![a] = AdvancedAttempt(@, s)],
                               completedProgress, answers)
             ELSE IF ~saved.ok
             THEN SubmitResult(400, "FOREIGN_QUESTION", attempts, progress,
                               [answers EXCEPT ![a] = saved.ans])
             ELSE SubmitResult(200, "", [attempts EXCEPT ![a] = AdvancedAttempt(@, s)],
                               finalizedProgress, [answers EXCEPT ![a] = saved.ans])

\* The answer sheets a client submits for a section: built from the questions
\* the section-questions read shows, all with one option letter.
FullSheet(a, s, letter) ==
    LET ids == FinalRead(ExistingAssigned(a, s), s) IN
    [i \in 1..Len(ids) |-> [question_id |-> ids[i], selected_option |-> letter]]

\* a question that is not one of the section's assigned questions
ForeignQuestion(a, s) == MinOf(Questions \ ExistingAssigned(a, s))

Sheets(a, s) ==
    IF a \notin AttemptIds \/ ExistingAssigned(a, s) = {} THEN {<<>>}
    ELSE UNION {LET full == FullSheet(a, s, letter) IN
                {full,
                 \* one answer short
                 SubSeq(full, 1, Len(full) - 1),
                 \* the last answer is for a question outside the section
                 [full EXCEPT ![Len(full)].question_id = ForeignQuestion(a, s)],
                 \* the last answer repeats the first question
                 [full EXCEPT ![Len(full)].question_id = full[1].question_id]}
                : letter \in SheetLetters}

\* a sheet other than the full one counts against MaxBadSheets
Malformed(a, s, sheet) == \A letter \in SheetLetters : sheet # FullSheet(a, s, letter)

SubmitSection(u, a, s, sheet) ==
    /\ badSheets' = IF Malformed(a, s, sheet) THEN badSheets + 1 ELSE badSheets
    /\ badSheets' <= MaxBadSheets
    /\ \E o \in {SubmitOutcome(u, a, s, sheet)} :
          /\ attempts' = o.attempts
          /\ progress' = o.progress
          /\ answers' = o.answers
          /\ resp' = Seen([Resp("submit", u, a, s, o.code, o.error) EXCEPT !.sheet = sheet])
    /\ UNCHANGED <<assigned, qstate, now, adminOps, reqs, observed, results>>

\* The same handler request by request.  First: the checks and the reads of
\* the assigned questions, the progress row and the stored answers.  A request
\* that has answers to create keeps what it read; every other request ends
\* here as the whole handler does.
SubmitCreates(u, a, s, sheet) ==
    /\ OwnedAttempt(u, a)
    /\ ExistingAssigned(a, s) # {}
    /\ Len(sheet) = Cardinality(ExistingAssigned(a, s))
    /\ ~(HasProgress(a, s) /\ ProgressRow(a, s).status = "COMPLETED")
    /\ ~(SheetIds(sheet) \subseteq {q \in SheetIds(sheet) : answers[a][q] # <<>>})

SubmitRead(r, u, a, s, sheet) ==
    /\ reqs[r].pc = "idle"
    /\ IF SubmitCreates(u, a, s, sheet)
       THEN /\ reqs' = [reqs EXCEPT ![r] = [NoRequest EXCEPT !.op = "submit",
                           !.pc = "write", !.student = u, !.attempt = a, !.section = s,
                           !.sheet = sheet,
                           !.sel = ExistingAssigned(a, s),
                           !.existing = {q \in SheetIds(sheet) : answers[a][q] # <<>>},
                           !.row = progress[a][s]]]
            /\ resp' = NoResp
            /\ UNCHANGED <<attempts, progress, answers>>
       ELSE /\ reqs' = reqs
            /\ \E o \in {SubmitOutcome(u, a, s, sheet)} :
                   /\ attempts' = o.attempts
                   /\ progress' = o.progress
                   /\ answers' = o.answers
                   /\ resp' = Seen([Resp("submit", u, a, s, o.code, o.error)
                                        EXCEPT !.sheet = sheet, !.atomic = FALSE])
    /\ UNCHANGED <<assigned, qstate, now, adminOps, badSheets, observed, results>>

\* Second: the loop of Answer.create over the sheet, then the progress row
\* (created when the request found none, else the row it read, finalized) and
\* the attempt.
SubmitWrite(r) ==
    /\ reqs[r].op = "submit" /\ reqs[r].pc = "write"
    /\ reqs' = [reqs EXCEPT ![r] = NoRequest]
    /\ LET u == reqs[r].student
           a == reqs[r].attempt
           s == reqs[r].section
       IN  \E saved \in {SaveNewAnswers(answers[a], reqs[r].sheet, 1, reqs[r].sel,
                                        reqs[r].existing)} :
               /\ answers' = [answers EXCEPT ![a] = saved.ans]
               /\ IF ~saved.ok
                  THEN /\ UNCHANGED <<attempts, progress>>
                       /\ resp' = Seen([Resp("submit", u, a, s, 400, "FOREIGN_QUESTION")
                                            EXCEPT !.sheet = reqs[r].sheet,
                                                   !.atomic = FALSE])
                  ELSE /\ progress' =
                              IF reqs[r].row = <<>>
                              THEN [progress EXCEPT ![a][s] =
                                        Append(@, NewProgress("COMPLETED", NoTime))]
                              ELSE [progress EXCEPT ![a][s][1] =
                                        FinalizedRow(reqs[r].row[1])]
                       /\ attempts' = [attempts EXCEPT ![a] = AdvancedAttempt(@, s)]
                       /\ resp' = Seen([Resp("submit", u, a, s, 200, "")
                                            EXCEPT !.sheet = reqs[r].sheet,
                                                   !.atomic = FALSE])
    /\ UNCHANGED <<assigned, qstate, now, adminOps, badSheets, observed, results>>

(* ------------------------------------------------------------------------ *)
(* POST /test/save-answer                                                    *)
(* ------------------------------------------------------------------------ *)
\* Answer.findOrCreate, then the update of the row found: findOrCreate may
\* find any of the rows of the question
SaveAnswer(u, a, q, letter) ==
    /\ IF ~(OwnedAttempt(u, a) /\ attempts[a].status = "IN_PROGRESS")
       THEN /\ answers' = answers
            /\ resp' = Seen(Resp("saveAnswer", u, a, SectionOf(q), 404,
                                 "ATTEMPT_NOT_FOUND"))
       ELSE /\ IF answers[a][q] = <<>>
               THEN answers' = [answers EXCEPT ![a][q] = <<letter>>]
               ELSE \E i \in DOMAIN answers[a][q] :
                        answers' = [answers EXCEPT ![a][q][i] = letter]
            /\ resp' = Seen([Resp("saveAnswer", u, a, SectionOf(q), 200, "")
                                 EXCEPT !.ids = <<q>>])
    /\ UNCHANGED <<attempts, progress, assigned, qstate, now, adminOps, badSheets,
                   reqs, observed, results>>
(* ------------------------------------------------------------------------ *)
(* GET /test/sections                                                        *)
(* ------------------------------------------------------------------------ *)
\* the IN_PROGRESS attempt the listing is built for: the set of rows findOne
\* may return (NoAttempt when there is none)
ListedAttempts(u, a) ==
    LET found == IF a # NoAttempt
                 THEN {t \in AttemptsOf(u, "IN_PROGRESS") : t = a}
                 ELSE AttemptsOf(u, "IN_PROGRESS")
    IN  IF found = {} THEN {NoAttempt} ELSE found

InProgressSections(t) ==
    {s \in Sections : \E i \in DOMAIN progress[t][s] :
                          progress[t][s][i].status = "IN_PROGRESS"}

CompletedSections(t) == {s \in Sections : SectionCompleted(t, s)}

\* "Determine current section based on progress": the values of
\* currentSectionIndex the loops may end with
CurrentSectionIndexes(t) ==
    IF t = NoAttempt THEN {1}
    ELSE IF InProgressSections(t) # {} THEN InProgressSections(t)
    ELSE IF CompletedSections(t) # {}
    THEN LET highestCompleted == MaxOf(CompletedSections(t)) IN
         {IF highestCompleted < TOTAL_SECTIONS THEN highestCompleted + 1
          ELSE TOTAL_SECTIONS}
    ELSE {1}

\* ListedStatus without the check of the previous sections of a section
\* beyond the current one
ListedStatusUnchecked(t, cur, s) ==
    IF s = 1
    THEN IF t = NoAttempt THEN "available"
         ELSE IF ProgressStatus(t, 1) = "COMPLETED" THEN "completed"
         ELSE IF ProgressStatus(t, 1) = "IN_PROGRESS" THEN "IN_PROGRESS"
         ELSE "available"
    ELSE IF t = NoAttempt \/ cur = 0 \/ cur = 1 THEN "locked"
    ELSE IF s < cur THEN "completed"
    ELSE IF s = cur
    THEN IF ProgressStatus(t, s) = "COMPLETED" THEN "completed"
         ELSE IF ProgressStatus(t, s) = "IN_PROGRESS" THEN "IN_PROGRESS"
         ELSE "available"
    ELSE "available"

\* the status string of one section of the listing
ListedStatus(t, cur, s) ==
    IF s = 1
    THEN IF t = NoAttempt THEN "available"
         ELSE IF ProgressStatus(t, 1) = "COMPLETED" THEN "completed"
         ELSE IF ProgressStatus(t, 1) = "IN_PROGRESS" THEN "IN_PROGRESS"
         ELSE "available"
    ELSE IF t = NoAttempt \/ cur = 0 \/ cur = 1 THEN "locked"
    ELSE IF s < cur THEN "completed"
    ELSE IF s = cur
    THEN IF ProgressStatus(t, s) = "COMPLETED" THEN "completed"
         ELSE IF ProgressStatus(t, s) = "IN_PROGRESS" THEN "IN_PROGRESS"
         ELSE "available"
    ELSE IF \A p \in Sections : p < s => SectionCompleted(t, p) THEN "available"
    ELSE "locked"

SectionsView(t, cur) == [s \in Sections |-> ListedStatus(t, cur, s)]

GetSections(u, a) ==
    /\ \E t \in ListedAttempts(u, a) : \E cur \in CurrentSectionIndexes(t) :
           resp' = Seen([Resp("sections", u, t, cur, 200, "") EXCEPT
                        !.view = SectionsView(t, cur)])
    /\ UNCHANGED <<store, now, adminOps, badSheets, reqs, observed, results>>

(* ------------------------------------------------------------------------ *)
(* GET /test/:test_attempt_id/state, /progress and /status                   *)
(* ------------------------------------------------------------------------ *)
\* "If no current section, find next incomplete section": the attempt row the
\* state read saves first
PointedAttempt(a) ==
    LET open == {s \in Sections :
                    \A i \in DOMAIN progress[a][s] : progress[a][s][i].status # "COMPLETED"}
    IN  IF attempts[a].current_section_id = NoSection /\ open # {}
        THEN [attempts[a] EXCEPT !.current_section_id = MinOf(open),
                                 !.current_question_index = 0,
                                 !.remaining_time_seconds = SECTION_TIME_LIMIT]
        ELSE attempts[a]

\* "Update test attempt with calculated remaining time"
GetState(u, a) ==
    /\ UNCHANGED <<progress, assigned, answers, qstate, now, adminOps, badSheets, reqs,
                   observed, results>>
    /\ IF ~OwnedAttempt(u, a)
       THEN /\ attempts' = attempts
            /\ resp' = Seen(Resp("state", u, a, NoSection, 404, "ATTEMPT_NOT_FOUND"))
       ELSE IF attempts[a].status = "COMPLETED"
       THEN /\ attempts' = attempts
            /\ resp' = Seen(Resp("state", u, a, NoSection, 200, ""))
       ELSE LET pointed == PointedAttempt(a)
                cur == pointed.current_section_id
            IN  /\ attempts' =
                       IF cur # NoSection /\ HasProgress(a, cur) /\ Running(ProgressRow(a, cur))
                       THEN [attempts EXCEPT ![a] =
                                [pointed EXCEPT !.remaining_time_seconds =
                                     MaxOf({0, SECTION_TIME_LIMIT -
                                               ((now - ProgressRow(a, cur).section_start_time)
                                                + ProgressRow(a, cur).total_time_spent)})]]
                       ELSE [attempts EXCEPT ![a] = pointed]
                /\ resp' = Seen(Resp("state", u, a, cur, 200, ""))

\* the progress read saves remaining_time_seconds only when the attempt has
\* none stored, and an attempt is created with one
GetProgress(u, a) ==
    /\ resp' = Seen(IF OwnedAttempt(u, a)
                    THEN Resp("progress", u, a, NoSection, 200, "")
                    ELSE Resp("progress", u, a, NoSection, 404, "ATTEMPT_NOT_FOUND"))
    /\ UNCHANGED <<store, now, adminOps, badSheets, reqs, observed, results>>

GetStatus(u, a) ==
    /\ resp' = Seen(IF OwnedAttempt(u, a)
                    THEN Resp("status", u, a, NoSection, 200, "")
                    ELSE Resp("status", u, a, NoSection, 404, "ATTEMPT_NOT_FOUND"))
    /\ UNCHANGED <<store, now, adminOps, badSheets, reqs, observed, results>>

(* ------------------------------------------------------------------------ *)
(* POST /test/:test_attempt_id/update-state                                  *)
(* ------------------------------------------------------------------------ *)
\* the request carries both fields
UpdateState(u, a, index, remaining) ==
    /\ UNCHANGED <<progress, assigned, answers, qstate, now, adminOps, badSheets, reqs,
                   observed, results>>
    /\ IF ~OwnedAttempt(u, a) \/ attempts[a].status # "IN_PROGRESS"
       THEN /\ attempts' = attempts
            /\ resp' = Seen(Resp("updateState", u, a, NoSection, 404, "ATTEMPT_NOT_FOUND"))
       ELSE /\ attempts' = [attempts EXCEPT ![a].current_question_index = MaxOf({0, index}),
                                            ![a].remaining_time_seconds = MaxOf({0, remaining})]
            /\ resp' = Seen(Resp("updateState", u, a, NoSection, 200, ""))

(* ------------------------------------------------------------------------ *)
(* Admin operations on a question (admin question routes)                    *)
(* ------------------------------------------------------------------------ *)
\* PATCH /:id/deactivate
DeactivatedQuestion(row) == [row EXCEPT !.is_active = FALSE]

\* PATCH /:id/activate
ActivatedQuestion(row) == [row EXCEPT !.is_active = TRUE]

\* POST /:id/reject
RejectedQuestion(row) == [row EXCEPT !.status = "rejected", !.is_active = FALSE]

\* DELETE /:id (soft delete)
DeletedQuestion(row) == [row EXCEPT !.status = "inactive", !.is_active = FALSE]

\* POST /:id/approve
ApprovedQuestion(row) == [row EXCEPT !.status = "approved", !.is_active = TRUE]

AdminUpdate(op, q, row) ==
    /\ adminOps < MaxAdminOps
    /\ adminOps' = adminOps + 1
    /\ qstate' = [qstate EXCEPT ![q] = row]
    /\ resp' = Seen([Resp(op, 0, NoAttempt, NoSection, 200, "") EXCEPT !.ids = <<q>>])
    /\ UNCHANGED <<attempts, progress, assigned, answers, now, badSheets, reqs, observed, results>>

AdminDeactivate(q) == AdminUpdate("deactivate", q, DeactivatedQuestion(qstate[q]))

AdminActivate(q) == AdminUpdate("activate", q, ActivatedQuestion(qstate[q]))

AdminReject(q) == AdminUpdate("reject", q, RejectedQuestion(qstate[q]))

AdminDelete(q) == AdminUpdate("delete", q, DeletedQuestion(qstate[q]))

AdminApprove(q) == AdminUpdate("approve", q, ApprovedQuestion(qstate[q]))

(* ------------------------------------------------------------------------ *)
(* services/scoring: calculateRawScores, storeScores                         *)
(* The questions of the bank are LIKERT_SCALE questions with a section.      *)
(* A score_value is kept in hundredths.                                      *)
(* ------------------------------------------------------------------------ *)
\* a Likert mapping that starts at 0: A=0 ... E=4
ZeroBasedValue(letter) ==
    CASE letter = "A" -> 0
      [] letter = "B" -> 1
      [] letter = "C" -> 2
      [] letter = "D" -> 3
      [] letter = "E" -> 4
      [] OTHER -> 2

\* "Likert scale mapping: A=1, B=2, C=3, D=4, E=5", an invalid answer counts 3
LikertValue(letter) ==
    CASE letter = "A" -> 1
      [] letter = "B" -> 2
      [] letter = "C" -> 3
      [] letter = "D" -> 4
      [] letter = "E" -> 5
      [] OTHER -> 3

RECURSIVE AnswerValues(_, _)
\* the values of the Answer rows of the questions qs, a sequence of ids
AnswerValues(rows, qs) ==
    IF qs = <<>> THEN <<>>
    ELSE [i \in 1..Len(rows[Head(qs)]) |-> LikertValue(rows[Head(qs)][i])]
             \o AnswerValues(rows, Tail(qs))

RECURSIVE SumSeq(_)
SumSeq(v) == IF v = <<>> THEN 0 ELSE Head(v) + SumSeq(Tail(v))

\* dimensionScores[dimension].values
DimensionValues(rows, d) ==
    AnswerValues(rows, SortedSeq({q \in Questions : SectionOf(q) = d}))

\* Answer.count({ where: { test_attempt_id } })
AnswerCount(a) == Len(AnswerValues(answers[a], SortedSeq(Questions)))

\* rawScore = data.total / data.count
RawScore(values) == (SumSeq(values) * 100) \div Len(values)

\* "convert 1-5 average to 0-100 percentage", clamped
OverallScore(values) ==
    MinOf({10000, MaxOf({0, ((SumSeq(values) - Len(values)) * 2500) \div Len(values)})})

\* the row scoring creates for each dimension that has answers
DimensionRows(rows) ==
    [d \in Dimensions |->
        IF d = Overall \/ DimensionValues(rows, d) = <<>> THEN <<>>
        ELSE <<RawScore(DimensionValues(rows, d))>>]

\* scoresToStore: the dimension rows and the overall row
ComputedScores(rows) ==
    [DimensionRows(rows) EXCEPT ![Overall] =
        IF AnswerValues(rows, SortedSeq(Questions)) = <<>> THEN <<>>
        ELSE <<OverallScore(AnswerValues(rows, SortedSeq(Questions)))>>]

\* Score.destroy({ where: { test_attempt_id } })
NoScores == [d \in Dimensions |-> <<>>]

\* Score.create for each dimension, on the rows cur stored by then
DimensionsCreated(cur, computed) ==
    [d \in Dimensions |-> IF d = Overall THEN cur[d] ELSE cur[d] \o computed[d]]

\* the overall row is updated where findOne returns one, created otherwise
OverallStored(cur, computed) ==
    IF computed[Overall] = <<>> THEN cur
    ELSE IF cur[Overall] # <<>>
    THEN [cur EXCEPT ![Overall][1] = computed[Overall][1]]
    ELSE [cur EXCEPT ![Overall] = computed[Overall]]

\* where a run of scoring may throw: reading the answers, creating the
\* dimension rows, storing the overall row
ScoringFailures == {"read", "create", "overall"}

\* calculateRawScores run with no other request in between, on the stored
\* rows cur: the rows it leaves, and whether it returned
ScoringRun(cur, rows, fail) ==
    IF fail = "read" THEN [ok |-> FALSE, scores |-> cur]
    ELSE IF AnswerValues(rows, SortedSeq(Questions)) = <<>>
    THEN [ok |-> TRUE, scores |-> cur]
    ELSE IF fail = "create" THEN [ok |-> FALSE, scores |-> NoScores]
    ELSE IF fail = "overall"
    THEN [ok |-> FALSE, scores |-> DimensionsCreated(NoScores, ComputedScores(rows))]
    ELSE [ok |-> TRUE,
          scores |-> OverallStored(DimensionsCreated(NoScores, ComputedScores(rows)),
                                   ComputedScores(rows))]

(* ------------------------------------------------------------------------ *)
(* POST /test/:test_attempt_id/complete                                      *)
(* ------------------------------------------------------------------------ *)
\* what may go wrong in a call: a step of scoring, or the interpretation
Failures == {"none", "interpretation"} \cup ScoringFailures

\* an idempotence check that never finds the attempt completed
NeverCompleted(a) == FALSE

\* "Make endpoint idempotent: if already completed, return success"
AlreadyCompleted(a) == attempts[a].status = "COMPLETED"

\* a section check that is content with one completed section
SomeSectionCompleted(a) == \E s \in Sections : SectionCompleted(a, s)

\* completedCount < activeSectionCount fails
AllSectionsCompleted(a) == \A s \in Sections : SectionCompleted(a, s)

\* an attempt completed whether scoring returned or not
CompletedAnyway(row) == [row EXCEPT !.status = "COMPLETED", !.completed_at = now]

\* the attempt row after storeScores threw: nothing was saved
ScoringFailedAttempt(row) == row

\* "Mark test attempt as completed"
CompletedAttempt(row) == [row EXCEPT !.status = "COMPLETED", !.completed_at = now]

CompleteResult(a, at, sc, ip, code, error, message) ==
    [attempts |-> at, scores |-> sc, interp |-> ip, code |-> code, error |-> error,
     message |-> message, attempt |-> a]

CompleteRefused(a, code, error) ==
    CompleteResult(a, attempts, scores, interp, code, error, "")

\* the checks of the handler before scoring: the refusal, or code 0 to go on
CompletePrecheck(u, a) ==
    IF ~OwnedAttempt(u, a) THEN CompleteRefused(a, 404, "ATTEMPT_NOT_FOUND")
    ELSE IF AlreadyCompleted(a)
    THEN CompleteResult(a, attempts, scores, interp, 200, "", "Test already completed")
    ELSE IF attempts[a].status # "IN_PROGRESS" THEN CompleteRefused(a, 400, "NOT_IN_PROGRESS")
    ELSE IF ~AllSectionsCompleted(a) THEN CompleteRefused(a, 400, "SECTIONS_INCOMPLETE")
    ELSE IF assigned[a] = {} THEN CompleteRefused(a, 400, "NO_QUESTIONS_ASSIGNED")
    ELSE IF AnswerCount(a) < Cardinality(assigned[a])
    THEN CompleteRefused(a, 400, "INCOMPLETE_ANSWERS")
    ELSE CompleteRefused(a, 0, "")

\* a completion undone when the interpretation fails
FinishedOrRolledBack(a, sc, fail) ==
    IF fail = "interpretation"
    THEN CompleteResult(a, attempts, sc, interp, 500, "INTERPRETATION_FAILED", "")
    ELSE CompleteResult(a, [attempts EXCEPT ![a] = CompletedAttempt(@)], sc,
                        [interp EXCEPT ![a] = @ \/ sc[a][Overall] # <<>>],
                        200, "", "Test completed successfully")

\* after scoring: the attempt is saved COMPLETED, then the interpretation is
\* created if there is none and an overall score exists; its failure is logged
Finished(a, sc, fail) ==
    CompleteResult(a, [attempts EXCEPT ![a] = CompletedAttempt(@)], sc,
                   [interp EXCEPT ![a] = @ \/ (sc[a][Overall] # <<>> /\ fail # "interpretation")],
                   200, "", "Test completed successfully")

\* the whole handler, run with no other request in between
CompleteOutcome(u, a, fail) ==
    IF CompletePrecheck(u, a).code # 0 THEN CompletePrecheck(u, a)
    ELSE IF ~ScoringRun(scores[a], answers[a], fail).ok
    THEN CompleteResult(a, [attempts EXCEPT ![a] = ScoringFailedAttempt(@)],
                        [scores EXCEPT ![a] = ScoringRun(scores[a], answers[a], fail).scores],
                        interp, 500, "SCORING_FAILED", "")
    ELSE Finished(a, [scores EXCEPT ![a] = ScoringRun(scores[a], answers[a], fail).scores],
                  fail)

CompleteResp(u, o, atomic) ==
    [Resp("complete", u, o.attempt, NoSection, o.code, o.error)
        EXCEPT !.view = <<o.message>>, !.atomic = atomic]

CompleteTest(u, a, fail) ==
    /\ \E o \in {CompleteOutcome(u, a, fail)} :
           /\ attempts' = o.attempts
           /\ scores' = o.scores
           /\ interp' = o.interp
           /\ resp' = Seen(CompleteResp(u, o, TRUE))
    /\ UNCHANGED <<progress, assigned, answers, qstate, now, adminOps, badSheets, reqs,
                   observed>>

\* The handler as the requests of a double click run it: each await yields,
\* so another request may run between the steps below.
\* First: the checks, the read of the answers and Score.destroy.
CompleteRead(r, u, a) ==
    /\ reqs[r].pc = "idle"
    /\ UNCHANGED <<progress, assigned, answers, qstate, now, adminOps, badSheets, observed>>
    /\ \E pre \in {CompletePrecheck(u, a)} :
           IF pre.code # 0
           THEN /\ UNCHANGED <<attempts, scores, interp, reqs>>
                /\ resp' = Seen(CompleteResp(u, pre, FALSE))
           ELSE /\ scores' = [scores EXCEPT ![a] = NoScores]
                /\ reqs' = [reqs EXCEPT ![r] = [NoRequest EXCEPT !.op = "complete",
                                !.pc = "create", !.student = u, !.attempt = a,
                                !.computed = ComputedScores(answers[a])]]
                /\ resp' = NoResp
                /\ UNCHANGED <<attempts, interp>>

\* Second: the Score rows are created, the attempt is saved COMPLETED and the
\* interpretation is created.
CompleteWrite(r) ==
    /\ reqs[r].op = "complete"
    /\ reqs[r].pc = "create"
    /\ reqs' = [reqs EXCEPT ![r] = NoRequest]
    /\ \E o \in {Finished(reqs[r].attempt,
                           [scores EXCEPT ![reqs[r].attempt] =
                               OverallStored(DimensionsCreated(@, reqs[r].computed),
                                             reqs[r].computed)],
                           "none")} :
           /\ attempts' = o.attempts
           /\ scores' = o.scores
           /\ interp' = o.interp
           /\ resp' = Seen(CompleteResp(reqs[r].student, o, FALSE))
    /\ UNCHANGED <<progress, assigned, answers, qstate, now, adminOps, badSheets, observed>>

(* ------------------------------------------------------------------------ *)
(* POST /admin/students/:id/allow-retake                                     *)
(* ------------------------------------------------------------------------ *)
\* TestAttempt.destroy of the student's COMPLETED and IN_PROGRESS attempts; the
\* rows that refer to an attempt go with it (onDelete: 'CASCADE').  A destroyed
\* attempt keeps its id as a row no lookup finds.
\* (first: an allow-retake that destroys nothing)
AllowRetakeWithoutReset(u) ==
    /\ resp' = Seen(Resp("allowRetake", u, NoAttempt, NoSection, 200, ""))
    /\ UNCHANGED <<store, now, adminOps, badSheets, reqs, observed, results>>

AllowRetake(u) ==
    LET gone == AttemptsOf(u, "COMPLETED") \cup AttemptsOf(u, "IN_PROGRESS")
        kept(f, empty) == [a \in DOMAIN f |-> IF a \in gone THEN empty ELSE f[a]]
    IN  /\ UNCHANGED <<qstate, now, adminOps, badSheets, reqs, observed>>
        /\ resp' = Seen(Resp("allowRetake", u, NoAttempt, NoSection, 200, ""))
        /\ IF AttemptsOf(u, "COMPLETED") = {}
           THEN UNCHANGED <<attempts, progress, assigned, answers, results>>
           ELSE /\ attempts' =
                       [a \in DOMAIN attempts |->
                            IF a \in gone
                            THEN [NewAttempt(0) EXCEPT !.status = "DELETED"]
                            ELSE attempts[a]]
                /\ progress' = kept(progress, [s \in Sections |-> <<>>])
                /\ assigned' = kept(assigned, {})
                /\ answers' = kept(answers, [q \in Questions |-> <<>>])
                /\ scores' = kept(scores, [d \in Dimensions |-> <<>>])
                /\ interp' = kept(interp, FALSE)

(* ------------------------------------------------------------------------ *)
(* Specifications                                                            *)
(* ------------------------------------------------------------------------ *)
\* The sequential flow of one student through the sections, on a bank with
\* exactly seven approved questions per section.
Next ==
    \/ \E u \in Students : StartTest(u)
    \/ \E u \in Students, a \in AttemptIds, s \in Sections : GetSectionQuestions(u, a, s)
    \/ \E u \in Students, a \in AttemptIds, s \in Sections : StartSection(u, a, s)
    \/ \E u \in Students, a \in AttemptIds, s \in Sections : GetSectionTimer(u, a, s)
    \/ \E u \in Students, a \in AttemptIds, s \in Sections :
           \E sheet \in Sheets(a, s) : SubmitSection(u, a, s, sheet)
    \/ \E u \in Students, a \in AttemptIds \cup {NoAttempt} : GetSections(u, a)
    \/ Tick

Spec == InitStore(Bank(SpareQuestions), {"sections", "submit"}) /\ [][Next]_vars

\* Start requests of one student interleaving, followed through the sections
\* up to the completion of the attempts they create.
NextStart ==
    \/ \E u \in Students : StartTest(u)
    \/ \E r \in Requests, u \in Students : StartCheckCompleted(r, u)
    \/ \E r \in Requests : StartCheckExisting(r)
    \/ \E r \in Requests : StartCreate(r)
    \/ \E u \in Students, a \in AttemptIds, s \in Sections : GetSectionQuestions(u, a, s)
    \/ \E u \in Students, a \in AttemptIds, s \in Sections :
           SubmitSection(u, a, s, FullSheet(a, s, "C"))

SpecStart == InitStore(Bank(SpareQuestions), {"start"}) /\ [][NextStart]_vars

\* The question bank under admin operations while a student fetches and
\* submits sections; section 1 has more than seven approved questions.
NextBank ==
    \/ \E u \in Students : StartTest(u)
    \/ \E u \in Students, a \in AttemptIds, s \in Sections : GetSectionQuestions(u, a, s)
    \/ \E u \in Students, a \in AttemptIds, s \in Sections :
           SubmitSection(u, a, s, FullSheet(a, s, "C"))
    \/ \E q \in AdminTargets : AdminDeactivate(q)
    \/ \E q \in AdminTargets : AdminActivate(q)
    \/ \E q \in AdminTargets : AdminReject(q)
    \/ \E q \in AdminTargets : AdminDelete(q)
    \/ \E q \in AdminTargets : AdminApprove(q)

SpecBank == InitStore(Bank({}), {"questions"}) /\ [][NextBank]_vars

\* Section-questions requests of one student interleaving.
NextAssign ==
    \/ \E u \in Students : StartTest(u)
    \/ \E r \in Requests, u \in Students, a \in AttemptIds, s \in Sections :
           QuestionsVerify(r, u, a, s)
    \/ \E r \in Requests : QuestionsSelect(r)
    \/ \E r \in Requests : QuestionsInsert(r)
    \/ \E r \in Requests : QuestionsRead(r)
    \/ \E u \in Students, a \in AttemptIds, s \in Sections :
           SubmitSection(u, a, s, FullSheet(a, s, "C"))

SpecAssign == InitStore(Bank({}), {}) /\ [][NextAssign]_vars

\* Submit requests of one student interleaving with each other and with
\* save-answer requests.
RacedSections == 1..MaxRacedSection

\* the questions save-answer is called for: the first assigned of each section
SaveTargets(a) ==
    {MinOf(ExistingAssigned(a, s)) :
         s \in {x \in RacedSections : ExistingAssigned(a, x) # {}}}

NextAnswers ==
    \/ \E u \in Students : StartTest(u)
    \/ \E u \in Students, a \in AttemptIds, s \in RacedSections : GetSectionQuestions(u, a, s)
    \/ \E r \in Requests, u \in Students, a \in AttemptIds, s \in RacedSections :
           SubmitRead(r, u, a, s, FullSheet(a, s, "C"))
    \/ \E r \in Requests : SubmitWrite(r)
    \/ \E u \in Students, a \in AttemptIds :
           \E q \in SaveTargets(a), letter \in SheetLetters : SaveAnswer(u, a, q, letter)

SpecAnswers == InitStore(Bank(SpareQuestions), {}) /\ [][NextAnswers]_vars

\* One student working through the first sections with the clock running:
\* section start, pause, resume, timer reads, saved answers and submits.
TimedSections == 1..MaxTimedSection

\* the client saves the answers of a section in the order of its questions
NextToAnswer(a) ==
    {MinOf({q \in ExistingAssigned(a, s) : answers[a][q] = <<>>}) :
         s \in {x \in TimedSections :
                    \E q \in ExistingAssigned(a, x) : answers[a][q] = <<>>}}

NextTimer ==
    \/ \E u \in Students : StartTest(u)
    \/ \E u \in Students, a \in AttemptIds, s \in TimedSections : GetSectionQuestions(u, a, s)
    \/ \E u \in Students, a \in AttemptIds, s \in TimedSections : StartSection(u, a, s)
    \/ \E u \in Students, a \in AttemptIds, s \in TimedSections : PauseSection(u, a, s)
    \/ \E u \in Students, a \in AttemptIds, s \in TimedSections : ResumeSection(u, a, s)
    \/ \E u \in Students, a \in AttemptIds, s \in TimedSections : GetSectionTimer(u, a, s)
    \/ \E u \in Students, a \in AttemptIds :
           \E q \in NextToAnswer(a), letter \in SheetLetters : SaveAnswer(u, a, q, letter)
    \/ \E u \in Students, a \in AttemptIds, s \in TimedSections :
           SubmitSection(u, a, s, FullSheet(a, s, "C"))
    \/ \E d \in Durations : Wait(d)

SpecTimer == InitStore(Bank(SpareQuestions), {"timer"}) /\ [][NextTimer]_vars

\* One student through all the sections and the completion of the attempt.
\* The submit of the last section marks the attempt COMPLETED by itself, so
\* the attempt reaches scoring when the clock of the last section runs out:
\* a timer read marks the section COMPLETED and leaves the attempt
\* IN_PROGRESS, with the answers of the section saved one by one.
LastSection == TOTAL_SECTIONS

\* the client saves the answers of the last section in the order of its questions
SavedAlone(a) ==
    {MinOf({q \in ExistingAssigned(a, s) : answers[a][q] = <<>>}) :
         s \in {x \in {LastSection} :
                    \E q \in ExistingAssigned(a, x) : answers[a][q] = <<>>}}

NextComplete ==
    \/ \E u \in Students : StartTest(u)
    \/ \E u \in Students, a \in AttemptIds, s \in Sections : GetSectionQuestions(u, a, s)
    \/ \E u \in Students, a \in AttemptIds, s \in Sections :
           \E sheet \in Sheets(a, s) : SubmitSection(u, a, s, sheet)
    \/ \E u \in Students, a \in AttemptIds :
           \E q \in SavedAlone(a) : SaveAnswer(u, a, q, "A")
    \/ \E u \in Students, a \in AttemptIds : StartSection(u, a, LastSection)
    \/ \E u \in Students, a \in AttemptIds : GetSectionTimer(u, a, LastSection)
    \/ \E u \in Students, a \in AttemptIds, fail \in Failures : CompleteTest(u, a, fail)
    \/ Tick

SpecComplete == InitStore(Bank(SpareQuestions), {"complete"}) /\ [][NextComplete]_vars

\* The completion of an attempt whose last section ran out of time, with the
\* requests of a double click on complete interleaved at the awaits of scoring.
\* the client sends nothing else while a complete request is being served, so
\* every run of scoring reads the same answers
Quiet == \A r \in Requests : reqs[r].pc = "idle"

NextScoring ==
    \/ \E u \in Students : Quiet /\ StartTest(u)
    \/ \E u \in Students, a \in AttemptIds, s \in Sections :
           Quiet /\ GetSectionQuestions(u, a, s)
    \/ \E u \in Students, a \in AttemptIds, s \in Sections :
           Quiet /\ SubmitSection(u, a, s, FullSheet(a, s, "C"))
    \/ \E u \in Students, a \in AttemptIds :
           \E q \in SavedAlone(a) : Quiet /\ SaveAnswer(u, a, q, "A")
    \/ \E u \in Students, a \in AttemptIds : Quiet /\ StartSection(u, a, LastSection)
    \/ \E u \in Students, a \in AttemptIds : Quiet /\ GetSectionTimer(u, a, LastSection)
    \/ Quiet /\ Tick
    \/ \E r \in Requests, u \in Students, a \in AttemptIds : CompleteRead(r, u, a)
    \/ \E r \in Requests : CompleteWrite(r)

SpecScoring == InitStore(Bank(SpareQuestions), {"complete"}) /\ [][NextScoring]_vars

\* Scoring on answers of several letters: the sheets of sections 1 and 2
\* carry one letter each, the first question of section 1 is also answered by
\* itself, and the last section is COMPLETED by a timer read before its
\* questions were fetched.
NextLetters ==
    \/ \E u \in Students : StartTest(u)
    \/ \E u \in Students, a \in AttemptIds, s \in Sections \ {LastSection} :
           GetSectionQuestions(u, a, s)
    \/ \E u \in Students, a \in AttemptIds, s \in Sections \ {LastSection} :
           \E letter \in (IF s = 1 THEN {"A", "C", "E"} ELSE IF s = 2 THEN {"C", "E"} ELSE {"C"}) :
               SubmitSection(u, a, s, FullSheet(a, s, letter))
    \/ \E u \in Students, a \in AttemptIds :
           \E q \in {x \in ExistingAssigned(a, 1) : x = MinOf(ExistingAssigned(a, 1))},
              letter \in {"B", "D"} : SaveAnswer(u, a, q, letter)
    \/ \E u \in Students, a \in AttemptIds : StartSection(u, a, LastSection)
    \/ \E u \in Students, a \in AttemptIds : GetSectionTimer(u, a, LastSection)
    \/ Tick
    \/ \E u \in Students, a \in AttemptIds : CompleteTest(u, a, "none")

SpecLetters == InitStore(Bank(SpareQuestions), {"complete"}) /\ [][NextLetters]_vars

\* A second student, who owns no attempt, sends the requests of the first
\* student's attempt: section 1 with its start, pause, resume, timer read,
\* submit, saved answer, completion and update-state.
Stranger == MaxOf(Students) + 1

StudentOps == {"startSection", "pause", "resume", "timer", "submit", "saveAnswer",
               "complete", "updateState"}

NextStranger ==
    \/ \E u \in Students : StartTest(u)
    \/ \E u \in Students, a \in AttemptIds : GetSectionQuestions(u, a, 1)
    \/ \E u \in Students \cup {Stranger}, a \in AttemptIds : StartSection(u, a, 1)
    \/ \E u \in Students \cup {Stranger}, a \in AttemptIds : PauseSection(u, a, 1)
    \/ \E u \in Students \cup {Stranger}, a \in AttemptIds : ResumeSection(u, a, 1)
    \/ \E u \in Students \cup {Stranger}, a \in AttemptIds : GetSectionTimer(u, a, 1)
    \/ \E u \in Students \cup {Stranger}, a \in AttemptIds : SubmitSection(u, a, 1, FullSheet(a, 1, "C"))
    \/ \E u \in Students \cup {Stranger}, a \in AttemptIds :
           \E q \in {x \in ExistingAssigned(a, 1) : x = MinOf(ExistingAssigned(a, 1))} :
               SaveAnswer(u, a, q, "C")
    \/ \E u \in Students \cup {Stranger}, a \in AttemptIds : CompleteTest(u, a, "none")
    \/ \E u \in Students \cup {Stranger}, a \in AttemptIds : UpdateState(u, a, 1, 0)
    \/ \E d \in Durations : Wait(d)

SpecStranger == InitStore(Bank(SpareQuestions), StudentOps) /\ [][NextStranger]_vars

\* One student's session on the first sections: the sections are started,
\* paused, resumed, timed and submitted while the client reads the state and
\* reports its question index and remaining time.
NextSession ==
    \/ \E u \in Students : StartTest(u)
    \/ \E u \in Students, a \in AttemptIds, s \in TimedSections : GetSectionQuestions(u, a, s)
    \/ \E u \in Students, a \in AttemptIds, s \in TimedSections : StartSection(u, a, s)
    \/ \E u \in Students, a \in AttemptIds, s \in TimedSections : PauseSection(u, a, s)
    \/ \E u \in Students, a \in AttemptIds, s \in TimedSections : ResumeSection(u, a, s)
    \/ \E u \in Students, a \in AttemptIds, s \in TimedSections : GetSectionTimer(u, a, s)
    \/ \E u \in Students, a \in AttemptIds, s \in TimedSections :
           SubmitSection(u, a, s, FullSheet(a, s, "C"))
    \/ \E u \in Students, a \in AttemptIds, remaining \in {0, SECTION_TIME_LIMIT} :
           UpdateState(u, a, 1, remaining)
    \/ \E u \in Students, a \in AttemptIds : GetState(u, a)
    \/ \E u \in Students, a \in AttemptIds : GetProgress(u, a)
    \/ \E u \in Students, a \in AttemptIds : GetStatus(u, a)
    \/ \E d \in Durations : Wait(d)

SpecReads == InitStore(Bank(SpareQuestions), {"state", "progress", "status"})
                 /\ [][NextSession]_vars

SpecSession == InitStore(Bank(SpareQuestions), {"startSection", "pause", "resume"})
                   /\ [][NextSession]_vars

\* The sequential flow of one student over all the sections, seen through the
\* responses of the section starts.
SpecStarts == InitStore(Bank(SpareQuestions), {"startSection"}) /\ [][Next]_vars

\* Start and submit requests of one student for the first sections
\* interleaving at the awaits between their reads and their writes.
NextRows ==
    \/ \E u \in Students : StartTest(u)
    \/ \E u \in Students, a \in AttemptIds, s \in TimedSections : GetSectionQuestions(u, a, s)
    \/ \E r \in Requests, u \in Students, a \in AttemptIds, s \in TimedSections :
           StartSectionRead(r, u, a, s)
    \/ \E r \in Requests : StartSectionCreate(r)
    \/ \E r \in Requests, u \in Students, a \in AttemptIds, s \in TimedSections :
           SubmitRead(r, u, a, s, FullSheet(a, s, "C"))
    \/ \E r \in Requests : SubmitWrite(r)

SpecRows == InitStore(Bank(SpareQuestions), {"startSection"}) /\ [][NextRows]_vars

\* One student through the five sections, the admin allowing a retake and the
\* student starting again.
NextRetake ==
    \/ \E u \in Students : StartTest(u)
    \/ \E u \in Students, a \in AttemptIds, s \in Sections : GetSectionQuestions(u, a, s)
    \/ \E u \in Students, a \in AttemptIds, s \in Sections :
           SubmitSection(u, a, s, FullSheet(a, s, "C"))
    \/ \E u \in Students : AllowRetake(u)

SpecRetake == InitStore(Bank(SpareQuestions), {"start", "allowRetake"}) /\ [][NextRetake]_vars

\* save-answer called for any question of the bank: the next unanswered
\* question of a section, or a question outside the section's assignment.
NextSave ==
    \/ \E u \in Students : StartTest(u)
    \/ \E u \in Students, a \in AttemptIds, s \in TimedSections : GetSectionQuestions(u, a, s)
    \/ \E u \in Students, a \in AttemptIds, s \in TimedSections :
           \E q \in NextToAnswer(a) \cup {ForeignQuestion(a, s)} : SaveAnswer(u, a, q, "C")
    \/ \E u \in Students, a \in AttemptIds, s \in TimedSections :
           SubmitSection(u, a, s, FullSheet(a, s, "C"))

SpecSave == InitStore(Bank(SpareQuestions), {"saveAnswer"}) /\ [][NextSave]_vars

\* The student who keeps working through the sections in order: the
\* questions of a section are fetched, the section is started, and a full
\* sheet is submitted for the section the attempt points at or the first
\* section that is not COMPLETED; complete is called.
FlowStep ==
    \E u \in Students, a \in AttemptIds :
        \/ \E s \in Sections : GetSectionQuestions(u, a, s)
        \/ \E s \in Sections : StartSection(u, a, s)
        \/ \E s \in Sections :
               /\ \/ s = attempts[a].current_section_id
                  \/ /\ ProgressStatus(a, s) # "COMPLETED"
                     /\ \A p \in Sections : p < s => ProgressStatus(a, p) = "COMPLETED"
               /\ SubmitSection(u, a, s, FullSheet(a, s, "C"))
        \/ CompleteTest(u, a, "none")

\* meanwhile a section that has run for a while is paused, the clock runs and
\* the timer is read
NextFlow ==
    \/ \E u \in Students : StartTest(u)
    \/ FlowStep
    \/ \E u \in Students, a \in AttemptIds, s \in Sections :
           /\ HasProgress(a, s)
           /\ Running(ProgressRow(a, s))
           /\ ProgressRow(a, s).section_start_time < now
           /\ PauseSection(u, a, s)
    \/ \E u \in Students, a \in AttemptIds, s \in Sections : GetSectionTimer(u, a, s)
    \/ Tick

\* some request of the flow would change the store
FlowStepEnabled ==
    \E u \in Students, a \in AttemptIds :
           \/ \E s \in Sections :
                  \E o \in QuestionsOutcomes(u, a, s) : ~(o.rows \subseteq assigned[a])
           \/ \E s \in Sections :
                  /\ OwnedAttempt(u, a) /\ ~StartBlocked(a, s)
                  /\ \/ ~HasProgress(a, s)
                     \/ /\ ProgressRow(a, s).status # "COMPLETED"
                        /\ StartedRow(ProgressRow(a, s)) # ProgressRow(a, s)
           \/ \E s \in Sections :
                  /\ \/ s = attempts[a].current_section_id
                     \/ /\ ProgressStatus(a, s) # "COMPLETED"
                        /\ \A p \in Sections : p < s => ProgressStatus(a, p) = "COMPLETED"
                  /\ LET o == SubmitOutcome(u, a, s, FullSheet(a, s, "C"))
                     IN  <<o.attempts, o.progress, o.answers>> # <<attempts, progress, answers>>
           \/ LET o == CompleteOutcome(u, a, "none")
              IN  <<o.attempts, o.scores, o.interp>> # <<attempts, scores, interp>>

\* The student never gives up: a section start that would change something
\* is eventually sent, and so is every request of the flow.  The second
\* condition is weak fairness of FlowStep, written with FlowStepEnabled for
\* its enabling condition.
SpecFlow ==
    /\ InitStore(Bank(SpareQuestions), {})
    /\ [][NextFlow]_vars
    /\ WF_vars(\E u \in Students, a \in AttemptIds, s \in Sections : StartSection(u, a, s))
    /\ ([]<>(~FlowStepEnabled) \/ []<><<FlowStep>>_vars)

(* ------------------------------------------------------------------------ *)
(* Properties                                                                *)
(* ------------------------------------------------------------------------ *)
\* C1: a student never has more than one COMPLETED attempt, and a start
\* request of a student who has a COMPLETED attempt fails and creates no
\* attempt.  Checked under SpecStart.
C1_OneCompletedAttempt ==
    [][\A u \in Students :
           /\ Cardinality({a \in DOMAIN attempts' :
                             /\ attempts'[a].student_id = u
                             /\ attempts'[a].status = "COMPLETED"}) <= 1
           /\ HasCompletedAttempt(u) =>
                  /\ Len(attempts') = Len(attempts)
                  /\ resp'.op = "start" /\ resp'.student = u => resp'.code = 400]_vars

\* two attempts of one student are COMPLETED
C1_TwoCompleted ==
    \E u \in Students : Cardinality(AttemptsOf(u, "COMPLETED")) >= 2

\* C2: whatever the interleaving of the start requests of a student, the
\* student never has more than one IN_PROGRESS attempt.  Checked under
\* SpecStart.
C2_OneInProgressAttempt ==
    \A u \in Students : Cardinality(AttemptsOf(u, "IN_PROGRESS")) <= 1

\* two start requests have both created a row
C2_TwoInProgress ==
    /\ \E u \in Students : Cardinality(AttemptsOf(u, "IN_PROGRESS")) >= 2
    /\ resp.op = "start" /\ resp.code = 200 /\ ~resp.atomic

\* C3: a start request of a student who has an IN_PROGRESS attempt answers
\* with the id of that attempt, creates no attempt and changes no field of an
\* attempt.  Stated for the handler run with no other request in between;
\* checked under SpecStart.
C3_StartReturnsExisting ==
    [][\A u \in Students :
           (/\ ExistingAttempts(u) # {}
            /\ resp'.op = "start" /\ resp'.student = u /\ resp'.atomic)
           => /\ resp'.code = 200
              /\ resp'.attempt \in ExistingAttempts(u)
              /\ attempts' = attempts]_vars

\* a start request was refused although the student has an IN_PROGRESS attempt
C3_StartRefusedWhileInProgress ==
    /\ resp.op = "start" /\ resp.atomic /\ resp.code = 400
    /\ ExistingAttempts(resp.student) # {}

\* C4: a second call of section-questions for the same attempt and section
\* answers as the first did, with the same question ids in the same order.
\* Checked under SpecBank.
C4_SameQuestionsTwice ==
    resp.op = "questions" =>
        \A o \in QuestionsOutcomes(resp.student, resp.attempt, resp.section) :
            o.code = resp.code /\ o.ids = resp.ids /\ o.rows = {}

\* a call has just drawn seven questions of a section that has more
C4_FirstAccessAnswered ==
    /\ resp.op = "questions" /\ resp.code = 200
    /\ Len(resp.ids) = QUESTIONS_PER_SECTION
    /\ Cardinality(EligibleIn(resp.section)) > QUESTIONS_PER_SECTION

\* C5: once questions are assigned to an attempt and section, the set of
\* question ids section-questions returns and submit counts for them never
\* changes, whatever operation follows.  Checked under SpecBank.
C5_AssignmentFixed ==
    [][\A a \in Attempts, s \in Sections :
           AssignedIn(a, s) # {} =>
               {q \in assigned'[a] : SectionOf(q) = s
                                     /\ qstate'[q].status = "approved"
                                     /\ qstate'[q].is_active}
               = ExistingAssigned(a, s)]_vars

\* section-questions has answered with fewer questions than are assigned
C5_AssignedQuestionDropped ==
    /\ resp.op = "questions" /\ resp.code = 200
    /\ Len(resp.ids) < Cardinality(AssignedIn(resp.attempt, resp.section))

\* C6: whatever the interleaving of the section-questions requests, an attempt
\* has no question or exactly seven questions assigned in a section.  Checked
\* under SpecAssign.
C6_ZeroOrSevenAssigned ==
    \A a \in Attempts, s \in Sections :
        Cardinality(AssignedIn(a, s)) \in {0, QUESTIONS_PER_SECTION}

\* two first accesses have stored different selections
C6_MoreThanSevenAssigned ==
    \E a \in Attempts, s \in Sections :
        /\ Cardinality(AssignedIn(a, s)) > QUESTIONS_PER_SECTION
        /\ \A r \in Requests : reqs[r].pc = "idle"

\* C7: in the listing of an attempt, a section after the first that is
\* reported available has the progress of the section before it COMPLETED.
\* Checked under Spec.
C7_AvailableAfterCompleted ==
    (resp.op = "sections" /\ resp.attempt # NoAttempt) =>
        \A s \in Sections :
            (s > 1 /\ resp.view[s] = "available") =>
                /\ HasProgress(resp.attempt, s - 1)
                /\ ProgressRow(resp.attempt, s - 1).status = "COMPLETED"

\* a listing reports a section after the first as available
C7_LaterSectionAvailable ==
    /\ resp.op = "sections" /\ resp.attempt # NoAttempt
    /\ \E s \in Sections : s > 2 /\ resp.view[s] = "available"

\* C8: section-questions for a section after the first, called while an
\* earlier section of the attempt is not COMPLETED, fails with SECTION_LOCKED
\* and assigns nothing.  Checked under SpecBank.
C8_LockedSectionRefused ==
    \A u \in Students, a \in AttemptIds, s \in Sections :
        (/\ s > 1
         /\ \E p \in 1..(s - 1) :
                \A i \in DOMAIN progress[a][p] : progress[a][p][i].status # "COMPLETED")
        => QuestionsOutcomes(u, a, s) =
               {[code |-> 403, error |-> "SECTION_LOCKED", ids |-> <<>>, rows |-> {}]}

\* a call for a section two or more ahead has been refused
C8_LockedAfterFirstSection ==
    /\ resp.op = "questions" /\ resp.error = "SECTION_LOCKED"
    /\ resp.section > 2
    /\ SectionCompleted(resp.attempt, 1)
    /\ AssignedIn(resp.attempt, resp.section) = {}

\* C9: section-questions on an unlocked section with no assignment and fewer
\* than seven approved and active questions fails with INSUFFICIENT_QUESTIONS
\* and stores no row.  Checked under SpecBank.
C9_InsufficientQuestions ==
    \A u \in Students, a \in AttemptIds, s \in Sections :
        (/\ attempts[a].status = "IN_PROGRESS"
         /\ \A p \in 1..(s - 1) :
                \E i \in DOMAIN progress[a][p] : progress[a][p][i].status = "COMPLETED"
         /\ AssignedIn(a, s) = {}
         /\ Cardinality({q \in Questions : /\ SectionOf(q) = s
                                           /\ qstate[q].status = "approved"
                                           /\ qstate[q].is_active})
                < QUESTIONS_PER_SECTION)
        => QuestionsOutcomes(u, a, s) =
               {[code |-> 400, error |-> "INSUFFICIENT_QUESTIONS", ids |-> <<>>,
                 rows |-> {}]}

\* a call on an unlocked section has been refused for lack of questions
C9_RefusedForLackOfQuestions ==
    /\ resp.op = "questions" /\ resp.error = "INSUFFICIENT_QUESTIONS"
    /\ attempts[resp.attempt].status = "IN_PROGRESS"
    /\ AssignedIn(resp.attempt, resp.section) = {}
    /\ Cardinality(EligibleIn(resp.section)) = QUESTIONS_PER_SECTION - 1

\* C10: a second submit of a section with the same answers changes nothing:
\* the progress stays COMPLETED, no answer row is added and the current
\* section of the attempt stays what the first call made it.  Checked under
\* Spec.
C10_SecondSubmitNoOp ==
    (resp.op = "submit" /\ resp.code = 200) =>
        LET o == SubmitOutcome(resp.student, resp.attempt, resp.section, resp.sheet) IN
        /\ ProgressStatus(resp.attempt, resp.section) = "COMPLETED"
        /\ o.code = 200
        /\ o.progress = progress
        /\ o.answers = answers
        /\ o.attempts[resp.attempt].current_section_id
               = attempts[resp.attempt].current_section_id

\* a full sheet has been stored and the attempt moved to the next section
C10_SectionSubmitted ==
    /\ resp.op = "submit" /\ resp.code = 200
    /\ Len(resp.sheet) = QUESTIONS_PER_SECTION
    /\ \A i \in DOMAIN resp.sheet :
           answers[resp.attempt][resp.sheet[i].question_id] # <<>>
    /\ attempts[resp.attempt].current_section_id = resp.section + 1

\* C11: whatever the interleaving of the submit and save-answer requests on
\* an attempt, the attempt has at most one answer row per question.  Checked
\* under SpecAnswers.
C11_OneAnswerPerQuestion ==
    \A a \in Attempts, q \in Questions : Len(answers[a][q]) <= 1

\* two submits of a section have both stored an answer for a question
C11_DuplicateAnswer ==
    /\ \E a \in Attempts, q \in Questions : Len(answers[a][q]) >= 2
    /\ \A r \in Requests : reqs[r].pc = "idle"

\* C12: for an IN_PROGRESS attempt whose current_section_id is set, the
\* current section is the lowest section whose progress is not COMPLETED.
\* Checked under Spec.
C12_CurrentIsLowestOpen ==
    \A a \in AttemptIds :
        (attempts[a].status = "IN_PROGRESS" /\ attempts[a].current_section_id # NoSection)
        => /\ \E s \in Sections : ProgressStatus(a, s) # "COMPLETED"
           /\ attempts[a].current_section_id =
                  MinOf({s \in Sections : ProgressStatus(a, s) # "COMPLETED"})

\* a repeated submit of an earlier section has moved the current section back
\* onto a COMPLETED section
C12_CurrentOnCompletedSection ==
    /\ resp.op = "submit" /\ resp.code = 200
    /\ attempts[resp.attempt].status = "IN_PROGRESS"
    /\ attempts[resp.attempt].current_section_id = resp.section + 1
    /\ ProgressStatus(resp.attempt, resp.section + 1) = "COMPLETED"

\* C13: in every reachable state the total_time_spent of every (attempt,
\* section) progress row is at most SECTION_TIME_LIMIT (420), however long the
\* section ran before a pause, a submit or a timer read.
C13_TimeSpentCapped ==
    \A a \in Attempts, s \in Sections :
        \A i \in 1..Len(progress[a][s]) :
            progress[a][s][i].total_time_spent <= SECTION_TIME_LIMIT

\* a pause has just stored more than the time limit in a section's row
C13_PauseStoredOverLimit ==
    \E a \in AttemptIds, s \in Sections :
        /\ HasProgress(a, s)
        /\ ProgressRow(a, s).status = "IN_PROGRESS"
        /\ ProgressRow(a, s).paused_at = now
        /\ ProgressRow(a, s).total_time_spent > SECTION_TIME_LIMIT

\* C14: in every reachable state of a SectionProgress row, while its status is
\* IN_PROGRESS exactly one of paused_at and section_start_time is non-null, and
\* once its status is COMPLETED both are null.
C14_TimestampsExclusive ==
    \A a \in Attempts, s \in Sections :
        \A i \in 1..Len(progress[a][s]) :
            /\ progress[a][s][i].status = "IN_PROGRESS" =>
                   (progress[a][s][i].paused_at # NoTime)
                       # (progress[a][s][i].section_start_time # NoTime)
            /\ progress[a][s][i].status = "COMPLETED" =>
                   /\ progress[a][s][i].paused_at = NoTime
                   /\ progress[a][s][i].section_start_time = NoTime

\* a section whose answers were all saved one by one has been submitted while
\* its clock was running: the row is COMPLETED and still carries its start time
C14_CompletedWithStartTime ==
    \E a \in AttemptIds, s \in Sections :
        /\ HasProgress(a, s)
        /\ ProgressRow(a, s).status = "COMPLETED"
        /\ ProgressRow(a, s).section_start_time # NoTime
        /\ \A q \in ExistingAssigned(a, s) : answers[a][q] # <<>>

\* C15: a timer read on a section that is running (start time set, not paused)
\* with accumulated plus elapsed time of at least SECTION_TIME_LIMIT (420)
\* leaves the section COMPLETED with total_time_spent = 420; a timer read on a
\* section that is paused, has no progress row, or has consumed less than the
\* limit changes no stored state.
C15_TimerRead ==
    [][\A a \in AttemptIds, s \in Sections :
          (resp'.op = "timer" /\ resp'.attempt = a /\ resp'.section = s) =>
              IF /\ HasProgress(a, s)
                 /\ Running(ProgressRow(a, s))
                 /\ ProgressRow(a, s).total_time_spent
                        + (now - ProgressRow(a, s).section_start_time) >= SECTION_TIME_LIMIT
              THEN /\ progress'[a][s][1].status = "COMPLETED"
                   /\ progress'[a][s][1].total_time_spent = SECTION_TIME_LIMIT
              ELSE UNCHANGED store]_vars

\* a timer read has found a section completed by the clock alone: no answer of
\* the attempt is stored, so no submit completed it
C15_TimerCompletedSection ==
    /\ resp.op = "timer"
    /\ HasProgress(resp.attempt, resp.section)
    /\ ProgressRow(resp.attempt, resp.section).status = "COMPLETED"
    /\ ProgressRow(resp.attempt, resp.section).total_time_spent = SECTION_TIME_LIMIT
    /\ ProgressRow(resp.attempt, resp.section).section_start_time = NoTime
    /\ \A q \in Questions : answers[resp.attempt][q] = <<>>

\* C16: complete on an attempt that is already COMPLETED answers 200 with
\* status COMPLETED and does not run scoring again: the attempt rows, the Score
\* rows, the answers and the interpretation are unchanged by the second call.
C16_CompleteIdempotent ==
    [][\A a \in AttemptIds :
          (resp'.op = "complete" /\ resp'.attempt = a /\ attempts[a].status = "COMPLETED") =>
              /\ resp'.code = 200
              /\ attempts'[a].status = "COMPLETED"
              /\ UNCHANGED <<attempts, scores, answers, interp>>]_vars

\* a scored and completed attempt has been completed once more
C16_CompletedAgain ==
    /\ resp.op = "complete"
    /\ resp.code = 200
    /\ resp.view = <<"Test already completed">>
    /\ attempts[resp.attempt].status = "COMPLETED"
    /\ scores[resp.attempt][Overall] # <<>>

\* C17: complete on an IN_PROGRESS attempt succeeds only if every section has a
\* COMPLETED SectionProgress and the number of stored answers is at least the
\* number of assigned questions; otherwise it is refused (sections incomplete
\* or answers incomplete) and the attempt stays IN_PROGRESS, scores untouched.
C17_CompleteRequiresAll ==
    [][\A a \in AttemptIds :
          (resp'.op = "complete" /\ resp'.attempt = a /\ attempts[a].status = "IN_PROGRESS") =>
              /\ resp'.code = 200 =>
                     /\ \A s \in Sections : \E i \in DOMAIN progress[a][s] :
                            progress[a][s][i].status = "COMPLETED"
                     /\ AnswerCount(a) >= Cardinality(assigned[a])
              /\ ~(/\ \A s \in Sections : \E i \in DOMAIN progress[a][s] :
                          progress[a][s][i].status = "COMPLETED"
                    /\ AnswerCount(a) >= Cardinality(assigned[a])) =>
                     /\ resp'.code = 400
                     /\ resp'.error \in {"SECTIONS_INCOMPLETE", "INCOMPLETE_ANSWERS"}
                     /\ attempts'[a] = attempts[a]
                     /\ attempts'[a].status = "IN_PROGRESS"
                     /\ scores' = scores]_vars

\* complete was refused for lack of answers though every section is COMPLETED
C17_RefusedForAnswers ==
    /\ resp.op = "complete"
    /\ resp.code = 400
    /\ resp.error = "INCOMPLETE_ANSWERS"
    /\ attempts[resp.attempt].status = "IN_PROGRESS"
    /\ \A s \in Sections : ProgressStatus(resp.attempt, s) = "COMPLETED"

\* C18: if scoring fails during complete, complete fails and the attempt stays
\* IN_PROGRESS with completed_at unset: that call persists no COMPLETED state.
C18_ScoringFailureKeepsInProgress ==
    [][\A a \in AttemptIds :
          (resp'.op = "complete" /\ resp'.attempt = a /\ resp'.error = "SCORING_FAILED") =>
              /\ resp'.code = 500
              /\ attempts' = attempts
              /\ attempts'[a].status = "IN_PROGRESS"
              /\ attempts'[a].completed_at = NoTime]_vars

\* scoring threw after it had stored dimension rows: the call answered 500 and
\* the attempt is still IN_PROGRESS
C18_ScoringFailedHalfway ==
    /\ resp.op = "complete"
    /\ resp.code = 500
    /\ attempts[resp.attempt].status = "IN_PROGRESS"
    /\ attempts[resp.attempt].completed_at = NoTime
    /\ scores[resp.attempt][1] # <<>>
    /\ scores[resp.attempt][Overall] = <<>>

\* C19: if the interpretation fails during a complete that would otherwise
\* succeed, complete still answers 200 and the attempt is COMPLETED with its
\* Score rows stored: the failure neither rolls back nor blocks the transition.
C19_InterpretationFailureIgnored ==
    \A u \in Students, a \in AttemptIds :
        (attempts[a].status = "IN_PROGRESS" /\ CompleteOutcome(u, a, "none").code = 200) =>
            /\ CompleteOutcome(u, a, "interpretation").code = 200
            /\ CompleteOutcome(u, a, "interpretation").attempts[a].status = "COMPLETED"
            /\ CompleteOutcome(u, a, "interpretation").attempts[a].completed_at = now
            /\ CompleteOutcome(u, a, "interpretation").scores
                   = CompleteOutcome(u, a, "none").scores
            /\ CompleteOutcome(u, a, "interpretation").scores[a][Overall] # <<>>

\* an attempt was completed and scored by a call whose interpretation failed
C19_CompletedWithoutInterpretation ==
    /\ resp.op = "complete"
    /\ resp.code = 200
    /\ resp.view = <<"Test completed successfully">>
    /\ attempts[resp.attempt].status = "COMPLETED"
    /\ ~interp[resp.attempt]
    /\ scores[resp.attempt][Overall] # <<>>

\* C20: after every run of scoring on an attempt, the attempt's Score rows are
\* exactly the rows computed from its current Answer set, with no row left
\* from another run; so two runs on the same answers leave identical rows.
C20_ScoresAreComputed ==
    (/\ resp.op = "complete"
     /\ resp.code = 200
     /\ resp.view = <<"Test completed successfully">>
     /\ \A r \in Requests : reqs[r].pc = "idle")
        => scores[resp.attempt] = ComputedScores(answers[resp.attempt])

\* both runs of scoring have ended and a dimension has two Score rows
C20_DuplicateScoreRows ==
    /\ resp.op = "complete"
    /\ resp.code = 200
    /\ \A r \in Requests : reqs[r].pc = "idle"
    /\ attempts[resp.attempt].status = "COMPLETED"
    /\ \E d \in Dimensions : Len(scores[resp.attempt][d]) >= 2

\* C21: for an attempt whose answers are all letters A to E, scoring stores for
\* each section dimension the mean of that section's ordinals (A=1 ... E=5) and
\* an overall score of ((mean of all ordinals - 1) / 4) * 100, within [0,100];
\* answers that are all C give overall 50. Scores are in hundredths, cut off.
C21_ScoresAreMeans ==
    (/\ resp.op = "complete"
     /\ resp.code = 200
     /\ resp.view = <<"Test completed successfully">>) =>
        LET a == resp.attempt
            with(S, l) == Cardinality({q \in S : answers[a][q] = <<l>>})
            count(S) == with(S, "A") + with(S, "B") + with(S, "C") + with(S, "D")
                            + with(S, "E")
            sum(S) == with(S, "A") + 2 * with(S, "B") + 3 * with(S, "C")
                          + 4 * with(S, "D") + 5 * with(S, "E")
            of(d) == {q \in Questions : SectionOf(q) = d}
        IN  /\ \A d \in Sections :
                   IF count(of(d)) = 0 THEN scores[a][d] = <<>>
                   ELSE /\ Len(scores[a][d]) = 1
                        /\ count(of(d)) * scores[a][d][1] <= 100 * sum(of(d))
                        /\ 100 * sum(of(d)) < count(of(d)) * (scores[a][d][1] + 1)
            /\ Len(scores[a][Overall]) = 1
            /\ scores[a][Overall][1] \in 0..10000
            /\ count(Questions) * scores[a][Overall][1]
                   <= 2500 * (sum(Questions) - count(Questions))
            /\ 2500 * (sum(Questions) - count(Questions))
                   < count(Questions) * (scores[a][Overall][1] + 1)
            /\ count(Questions) = with(Questions, "C") => scores[a][Overall][1] = 5000

\* scoring has run on answers of several letters: the mean of section 1 is
\* not a whole number and section 2 is scored 5
C21_MixedLettersScored ==
    /\ resp.op = "complete"
    /\ resp.code = 200
    /\ resp.view = <<"Test completed successfully">>
    /\ scores[resp.attempt][1] # <<>>
    /\ scores[resp.attempt][1][1] % 100 # 0
    /\ scores[resp.attempt][2] = <<500>>

\* C22: every student operation on an attempt (section start, pause, resume,
\* timer read, section submit, save-answer, complete, update-state) sent by a
\* student who does not own the attempt answers 404 and leaves the attempt,
\* its progress rows and its answers as they were.
C22_StrangerRefused ==
    [][(resp'.op \in StudentOps /\ resp'.student = Stranger)
           => /\ resp'.code = 404
              /\ UNCHANGED <<attempts, progress, answers>>]_vars

\* the stranger has paused a running section of the first student's attempt
C22_StrangerPaused ==
    /\ resp.op = "pause"
    /\ resp.student = Stranger
    /\ resp.code = 200
    /\ attempts[resp.attempt].student_id # Stranger
    /\ ProgressRow(resp.attempt, resp.section).paused_at = now

\* C23: the state, progress and status reads of an attempt change no stored
\* field of the attempt (current_section_id, current_question_index,
\* remaining_time_seconds), of its progress rows or of its answers.
C23_ReadsChangeNothing ==
    [][resp'.op \in {"state", "progress", "status"}
           => UNCHANGED <<attempts, progress, answers>>]_vars

\* a state read has pointed the attempt at section 1, which was never started
C23_StateReadPointedAttempt ==
    /\ resp.op = "state"
    /\ resp.code = 200
    /\ attempts[resp.attempt].current_section_id = 1
    /\ ~HasProgress(resp.attempt, 1)

\* C24: a start of section k > 1 succeeds only if every earlier section is
\* COMPLETED for the attempt, and in every reachable state a section whose
\* progress row is IN_PROGRESS or COMPLETED has all earlier sections COMPLETED.
C24_EarlierSectionsCompleted ==
    /\ [](\A a \in AttemptIds, s \in Sections :
              ProgressStatus(a, s) \in {"IN_PROGRESS", "COMPLETED"}
                  => \A p \in Sections : p < s => ProgressStatus(a, p) = "COMPLETED")
    /\ [][(resp'.op = "startSection" /\ resp'.code = 200 /\ resp'.section > 1)
              => \A p \in Sections :
                     p < resp'.section => ProgressStatus(resp'.attempt, p) = "COMPLETED"]_vars

\* section 2 has just been started, after section 1 was COMPLETED
C24_SecondSectionStarted ==
    /\ resp.op = "startSection"
    /\ resp.code = 200
    /\ resp.section = 2
    /\ ProgressStatus(resp.attempt, 2) = "IN_PROGRESS"
    /\ ProgressStatus(resp.attempt, 1) = "COMPLETED"

\* C25: the total_time_spent of an (attempt, section) never decreases across
\* any operation on the attempt (section start, pause, resume, timer read,
\* submit, update-state, state read).
C25_TimeSpentNeverDecreases ==
    [][\A a \in AttemptIds, s \in Sections :
           HasProgress(a, s) =>
               ProgressRow(a, s)'.total_time_spent >= ProgressRow(a, s).total_time_spent]_vars

\* a section is paused with time spent, and the resume of it stores less
C25_ResumeLosesTimeSpent ==
    \E a \in AttemptIds, s \in Sections :
        /\ HasProgress(a, s)
        /\ ProgressRow(a, s).paused_at # NoTime
        /\ ProgressRow(a, s).total_time_spent = SECTION_TIME_LIMIT \div 2
        /\ ResumedRow(a, ProgressRow(a, s)).total_time_spent = 0

\* C26: a resume of a paused section sets total_time_spent to 420 minus the
\* attempt's remaining_time_seconds, sets section_start_time, clears paused_at
\* and leaves the status IN_PROGRESS, for every stored remaining_time_seconds
\* (0 included).
C26_ResumeRecomputesTimeSpent ==
    [][(resp'.op = "resume" /\ resp'.code = 200)
           => LET row == progress'[resp'.attempt][resp'.section][1]
              IN  /\ row.total_time_spent =
                         SECTION_TIME_LIMIT - attempts[resp'.attempt].remaining_time_seconds
                  /\ row.section_start_time = now
                  /\ row.paused_at = NoTime
                  /\ row.status = "IN_PROGRESS"]_vars

\* a section has just been resumed with no remaining time stored in the
\* attempt, and its total_time_spent is not the time limit
C26_ResumedWithNoTimeLeft ==
    /\ resp.op = "resume"
    /\ resp.code = 200
    /\ attempts[resp.attempt].remaining_time_seconds = 0
    /\ ProgressRow(resp.attempt, resp.section).section_start_time = now
    /\ ProgressRow(resp.attempt, resp.section).total_time_spent < SECTION_TIME_LIMIT

\* C27: a pause of a section that is not IN_PROGRESS or is already paused, and
\* a resume of a section that is not paused, fail and leave the progress rows
\* and the attempt (its remaining_time_seconds) as they were.
C27_PauseResumeRefused ==
    [][/\ (/\ resp'.op = "pause"
            /\ \/ ProgressStatus(resp'.attempt, resp'.section) # "IN_PROGRESS"
               \/ ProgressRow(resp'.attempt, resp'.section).paused_at # NoTime)
           => (resp'.code >= 400 /\ UNCHANGED <<attempts, progress>>)
       /\ (/\ resp'.op = "resume"
            /\ \/ ~HasProgress(resp'.attempt, resp'.section)
               \/ ProgressRow(resp'.attempt, resp'.section).paused_at = NoTime)
           => (resp'.code >= 400 /\ UNCHANGED <<attempts, progress>>)]_vars

\* a resume of a section that runs with half its time spent has just been
\* refused
C27_RunningSectionNotResumed ==
    /\ resp.op = "resume"
    /\ resp.code = 400
    /\ HasProgress(resp.attempt, resp.section)
    /\ Running(ProgressRow(resp.attempt, resp.section))
    /\ ProgressRow(resp.attempt, resp.section).total_time_spent = SECTION_TIME_LIMIT \div 2

\* C28: COMPLETED is terminal for a section's progress: a start of a COMPLETED
\* section fails with "Section already completed", and no start, pause,
\* resume, timer read or submit moves its status away from COMPLETED.
C28_CompletedIsTerminal ==
    [][/\ (resp'.op = "startSection"
               /\ ProgressStatus(resp'.attempt, resp'.section) = "COMPLETED")
           => (resp'.code = 400 /\ resp'.error = "SECTION_ALREADY_COMPLETED")
       /\ \A a \in AttemptIds, s \in Sections :
              ProgressStatus(a, s) = "COMPLETED"
                  => progress'[a][s][1].status = "COMPLETED"]_vars

\* a start of a COMPLETED section has just been refused as locked
C28_CompletedSectionLocked ==
    /\ resp.op = "startSection"
    /\ resp.code = 403
    /\ ProgressStatus(resp.attempt, resp.section) = "COMPLETED"

\* C29: a submit of a section whose progress is already COMPLETED (by an
\* earlier submit or by the timer), with a sheet of the section's size,
\* succeeds without creating or changing an answer, and sets
\* current_section_id to the next section or, for the last section, marks
\* the attempt COMPLETED.
C29_SubmitOfCompletedAdvances ==
    [][(/\ resp'.op = "submit"
        /\ OwnedAttempt(resp'.student, resp'.attempt)
        /\ ProgressStatus(resp'.attempt, resp'.section) = "COMPLETED"
        /\ ExistingAssigned(resp'.attempt, resp'.section) # {}
        /\ Len(resp'.sheet) = Cardinality(ExistingAssigned(resp'.attempt, resp'.section)))
           => /\ resp'.code = 200
              /\ answers' = answers
              /\ IF resp'.section < TOTAL_SECTIONS
                 THEN attempts'[resp'.attempt].current_section_id = resp'.section + 1
                 ELSE attempts'[resp'.attempt].status = "COMPLETED"]_vars

\* the last section, COMPLETED by the timer, has just been submitted and the
\* attempt is still IN_PROGRESS
C29_LastSectionSubmittedInProgress ==
    /\ resp.op = "submit"
    /\ resp.code = 200
    /\ resp.section = TOTAL_SECTIONS
    /\ ProgressStatus(resp.attempt, TOTAL_SECTIONS) = "COMPLETED"
    /\ ProgressRow(resp.attempt, TOTAL_SECTIONS).total_time_spent = SECTION_TIME_LIMIT
    /\ attempts[resp.attempt].status = "IN_PROGRESS"

\* C30: a section submit never overwrites a stored answer: every question
\* that has an answer before the call has the same stored option after it,
\* even when the submitted option differs.
C30_SubmitKeepsStoredAnswers ==
    \A a \in AttemptIds, s \in Sections, letter \in {"A", "C", "E"} :
        LET o == SubmitOutcome(attempts[a].student_id, a, s, FullSheet(a, s, letter))
        IN  \A q \in Questions :
                answers[a][q] # <<>> => o.answers[a][q] = answers[a][q]

\* the first question of section 1 holds a saved "B" and a submit of the
\* section with "A" for every question stores the other answers and keeps it
C30_SavedAnswerKept ==
    \E a \in AttemptIds :
        \E q \in ExistingAssigned(a, 1), other \in ExistingAssigned(a, 1) :
            LET o == SubmitOutcome(attempts[a].student_id, a, 1, FullSheet(a, 1, "A"))
            IN  /\ answers[a][q] = <<"B">>
                /\ answers[a][other] = <<>>
                /\ o.code = 200
                /\ o.answers[a][other] = <<"A">>
                /\ o.answers[a][q] = <<"B">>

\* C31: a section submit of an owned attempt, with a sheet of the section's
\* size in which some answer is for a question not assigned to the (attempt,
\* section), fails with the foreign-question error, whatever answers and
\* progress are stored.
C31_ForeignQuestionRefused ==
    [][(/\ resp'.op = "submit"
        /\ OwnedAttempt(resp'.student, resp'.attempt)
        /\ ExistingAssigned(resp'.attempt, resp'.section) # {}
        /\ Len(resp'.sheet) = Cardinality(ExistingAssigned(resp'.attempt, resp'.section))
        /\ ~(SheetIds(resp'.sheet) \subseteq ExistingAssigned(resp'.attempt, resp'.section)))
           => (resp'.code = 400 /\ resp'.error = "FOREIGN_QUESTION")]_vars

\* a sheet with an answer for a question outside the section has just been
\* accepted
C31_ForeignSheetAccepted ==
    /\ resp.op = "submit"
    /\ resp.code = 200
    /\ Len(resp.sheet) = Cardinality(ExistingAssigned(resp.attempt, resp.section))
    /\ ~(SheetIds(resp.sheet) \subseteq ExistingAssigned(resp.attempt, resp.section))

\* C32: whenever an attempt is COMPLETED, whichever operation completed it
\* (complete, or the submit of the last section), scoring has run for it: an
\* overall score row exists.
C32_CompletedAttemptScored ==
    \A a \in AttemptIds :
        attempts[a].status = "COMPLETED" => scores[a][Overall] # <<>>

\* the submit of the last section has just marked the attempt COMPLETED and
\* the attempt has no score row
C32_CompletedBySubmitUnscored ==
    /\ resp.op = "none"
    /\ \E a \in AttemptIds :
           /\ attempts[a].status = "COMPLETED"
           /\ attempts[a].completed_at = now
           /\ \A s \in Sections : ProgressStatus(a, s) = "COMPLETED"
           /\ \A d \in Dimensions : scores[a][d] = <<>>

\* C33: after any interleaving of section start and section submit requests
\* (two concurrent starts that both find no progress row included) there is
\* at most one progress row per (attempt, section).
C33_OneRowPerSection ==
    \A a \in AttemptIds, s \in Sections : Len(progress[a][s]) <= 1

\* two start requests have each created an IN_PROGRESS row for section 1
C33_TwoStartsTwoRows ==
    /\ resp.op = "startSection"
    /\ resp.code = 200
    /\ Len(progress[resp.attempt][1]) = 2
    /\ \A i \in 1..2 : progress[resp.attempt][1][i].status = "IN_PROGRESS"

\* C34: no operation but allow-retake makes an attempt ABANDONED; an
\* allow-retake for a student with a COMPLETED attempt removes the student's
\* attempts, so that the student has no COMPLETED attempt after it; and a
\* start of a student without COMPLETED or IN_PROGRESS attempt creates a new
\* IN_PROGRESS attempt.
C34_RetakeAllowsNewAttempt ==
    [][/\ \A a \in AttemptIds :
              (attempts[a].status # "ABANDONED" /\ attempts'[a].status = "ABANDONED")
                  => resp'.op = "allowRetake"
       /\ (resp'.op = "allowRetake" /\ HasCompletedAttempt(resp'.student))
              => /\ \A a \in DOMAIN attempts' :
                        ~(attempts'[a].student_id = resp'.student
                              /\ attempts'[a].status = "COMPLETED")
                 /\ \A a \in AttemptsOf(resp'.student, "COMPLETED") :
                        /\ attempts'[a].student_id # resp'.student
                        /\ answers'[a] = [q \in Questions |-> <<>>]
                        /\ \A s \in Sections : progress'[a][s] = <<>>
       /\ (/\ resp'.op = "start"
            /\ ~HasCompletedAttempt(resp'.student)
            /\ ExistingAttempts(resp'.student) = {}
            /\ \E a \in AttemptIds : attempts[a].status = "DELETED")
              => /\ resp'.code = 200
                 /\ resp'.attempt \notin AttemptIds
                 /\ attempts'[resp'.attempt].status = "IN_PROGRESS"
                 /\ attempts'[resp'.attempt].student_id = resp'.student]_vars

\* the student whose COMPLETED attempt was removed by allow-retake has just
\* started a new attempt
C34_StartedAgainAfterRetake ==
    /\ resp.op = "start"
    /\ resp.code = 200
    /\ attempts[resp.attempt].status = "IN_PROGRESS"
    /\ \E a \in AttemptIds : a < resp.attempt /\ attempts[a].status = "DELETED"
    /\ ~HasCompletedAttempt(resp.student)

\* C35: every COMPLETED attempt, whichever operation completed it, has the
\* progress of all five sections COMPLETED and a stored answer for every
\* question assigned to it.
C35_CompletedAttemptIsWhole ==
    \A a \in AttemptIds :
        attempts[a].status = "COMPLETED"
            => /\ \A s \in Sections : ProgressStatus(a, s) = "COMPLETED"
               /\ \A q \in assigned[a] : answers[a][q] # <<>>

\* the submit of the last section has just COMPLETED an attempt whose first
\* section was closed by the timer with no answer stored
C35_CompletedWithUnansweredSection ==
    /\ resp.op = "submit"
    /\ resp.code = 200
    /\ resp.section = TOTAL_SECTIONS
    /\ attempts[resp.attempt].status = "COMPLETED"
    /\ ProgressStatus(resp.attempt, 1) = "COMPLETED"
    /\ ExistingAssigned(resp.attempt, 1) # {}
    /\ \A q \in ExistingAssigned(resp.attempt, 1) : answers[resp.attempt][q] = <<>>

\* C36: whenever every section before section k is COMPLETED for an
\* IN_PROGRESS attempt and section k is not COMPLETED, a start of section k
\* is not refused as locked, however the earlier sections became COMPLETED.
C36_OpenSectionStarts ==
    [][(/\ resp'.op = "startSection"
        /\ OwnedAttempt(resp'.student, resp'.attempt)
        /\ attempts[resp'.attempt].status = "IN_PROGRESS"
        /\ \A p \in Sections :
               p < resp'.section => ProgressStatus(resp'.attempt, p) = "COMPLETED"
        /\ ProgressStatus(resp'.attempt, resp'.section) # "COMPLETED")
           => resp'.code # 403]_vars

\* section 1 was COMPLETED by the timer and the start of section 2 has just
\* been refused as locked
C36_NextSectionLocked ==
    /\ resp.op = "startSection"
    /\ resp.code = 403
    /\ resp.section = 2
    /\ attempts[resp.attempt].status = "IN_PROGRESS"
    /\ attempts[resp.attempt].current_section_id = 1
    /\ ProgressStatus(resp.attempt, 1) = "COMPLETED"
    /\ ProgressRow(resp.attempt, 1).total_time_spent = SECTION_TIME_LIMIT
    /\ ProgressStatus(resp.attempt, 2) = "NONE"

\* C37: with at least 7 approved and active questions in every section, the
\* student who for each section in order fetches its questions, starts it and
\* submits one answer per assigned question, and then calls complete,
\* eventually has the attempt COMPLETED, from every reachable state of an
\* IN_PROGRESS attempt.
C37_FlowCompletesAttempt ==
    (\E a \in AttemptIds : attempts[a].status = "IN_PROGRESS")
        ~> (\A a \in AttemptIds : attempts[a].status = "COMPLETED")

\* the last section was COMPLETED by the timer with no answer stored: its
\* submit stores nothing and complete is refused, so the attempt stays
\* IN_PROGRESS
C37_StuckAfterLastSectionTimedOut ==
    \E a \in AttemptIds :
        LET u == attempts[a].student_id
            o == SubmitOutcome(u, a, TOTAL_SECTIONS, FullSheet(a, TOTAL_SECTIONS, "C"))
        IN  /\ attempts[a].status = "IN_PROGRESS"
            /\ \A s \in Sections : ProgressStatus(a, s) = "COMPLETED"
            /\ ExistingAssigned(a, TOTAL_SECTIONS) # {}
            /\ o.code = 200
            /\ o.attempts = attempts /\ o.answers = answers /\ o.progress = progress
            /\ CompleteOutcome(u, a, "none").code = 400

\* C38: once an attempt is COMPLETED, no student operation changes the
\* attempt row, its section progress rows or its answers.
C38_CompletedAttemptFrozen ==
    [][\A a \in AttemptIds :
           attempts[a].status = "COMPLETED"
               => /\ attempts'[a] = attempts[a]
                  /\ progress'[a] = progress[a]
                  /\ answers'[a] = answers[a]]_vars

\* A COMPLETED attempt that a submit of one of its earlier sections has
\* answered with 200 and pointed at the section after it, with the
\* remaining time set back to the full section time.
C38_SubmitMovedCompletedAttempt ==
    \E a \in AttemptIds :
        /\ attempts[a].status = "COMPLETED"
        /\ resp.op = "submit"
        /\ resp.attempt = a
        /\ resp.code = 200
        /\ resp.section < TOTAL_SECTIONS
        /\ attempts[a].current_section_id = resp.section + 1
        /\ attempts[a].remaining_time_seconds = SECTION_TIME_LIMIT

\* C39: a section submit that is refused with 400 (answer count mismatch or
\* an answer for a question outside the section) leaves the attempt row,
\* the section progress rows and the answers as they were.
C39_FailedSubmitPersistsNothing ==
    [][(resp'.op = "submit" /\ resp'.code = 400)
           => /\ attempts' = attempts
              /\ progress' = progress
              /\ answers' = answers]_vars

\* A submit refused for a foreign question whose sheet's first answer is
\* stored for the attempt, while the section has no progress row.
C39_RefusedSheetLeftAnswers ==
    /\ resp.op = "submit"
    /\ resp.code = 400
    /\ resp.error = "FOREIGN_QUESTION"
    /\ Len(resp.sheet) = QUESTIONS_PER_SECTION
    /\ answers[resp.attempt][resp.sheet[1].question_id]
           = <<resp.sheet[1].selected_option>>
    /\ ~HasProgress(resp.attempt, resp.section)

\* C40: every stored answer of an attempt is for a question assigned to
\* that attempt.
C40_AnswersAreAssigned ==
    \A a \in AttemptIds, q \in Questions :
        answers[a][q] # <<>> => q \in assigned[a]

\* save-answer has answered 200 for a question that is not assigned to the
\* attempt, and the answer is stored.
C40_SavedUnassignedQuestion ==
    /\ resp.op = "saveAnswer"
    /\ resp.code = 200
    /\ resp.ids[1] \notin assigned[resp.attempt]
    /\ answers[resp.attempt][resp.ids[1]] = <<"C">>
====
